---------------------------- MODULE Spec2Model ----------------------------
(***************************************************************************)
(* Model of the politeia cache's fonero plugin                             *)
(* (politeiad/cache/cockroachdb/fonero.go, here src/unnamed/part_002, with *)
(* its converters in src/politeiad/cache/testcache/fonero.go) and of the   *)
(* in-memory test doubles (testcache, TestPoliteiad).                      *)
(*                                                                         *)
(* Go strings are sequences of one-character strings, so that string       *)
(* concatenation (the derived keys), strconv.FormatUint/ParseUint and      *)
(* strings.Join/Split are computed, not assumed.  float64 arithmetic of    *)
(* newVoteResults is computed on 53-bit mantissas held as bit sequences.   *)
(***************************************************************************)
EXTENDS Integers, Sequences, FiniteSets, TLC

(***************************************************************************)
(* Strings                                                                 *)
(***************************************************************************)
Digits == <<"0", "1", "2", "3", "4", "5", "6", "7", "8", "9",
            "a", "b", "c", "d", "e", "f">>

RECURSIVE FormatUint(_, _)
\* strconv.FormatUint(n, base): canonical digits, most significant first.
FormatUint(n, base) ==
    IF n < base THEN <<Digits[n + 1]>>
    ELSE FormatUint(n \div base, base) \o <<Digits[(n % base) + 1]>>

DigitValue(c) ==
    IF \E i \in 1..10 : Digits[i] = c
    THEN (CHOOSE i \in 1..10 : Digits[i] = c) - 1
    ELSE -1

RECURSIVE ParseAcc(_, _)
ParseAcc(s, acc) ==
    IF s = <<>> THEN acc
    ELSE IF acc < 0 \/ DigitValue(Head(s)) < 0 THEN -1
    ELSE ParseAcc(Tail(s), acc * 10 + DigitValue(Head(s)))

\* strconv.ParseUint(s, 10, 64): the value, or -1 for a syntax error (the
\* empty string, a sign, any character that is not a decimal digit).
ParseUint(s) == IF s = <<>> THEN -1 ELSE ParseAcc(s, 0)

RECURSIVE Join(_)
\* strings.Join(elems, ","), the halves joined first.
Join(elems) ==
    IF elems = <<>> THEN <<>>
    ELSE IF Len(elems) = 1 THEN elems[1]
    ELSE Join(SubSeq(elems, 1, Len(elems) \div 2)) \o <<",">>
             \o Join(SubSeq(elems, Len(elems) \div 2 + 1, Len(elems)))

\* The separator at which Split cuts s first: the first one in the second
\* half of s, or else the last one of s.
CutAt(s) ==
    IF \E i \in (Len(s) \div 2 + 1)..Len(s) : s[i] = ","
    THEN CHOOSE i \in (Len(s) \div 2 + 1)..Len(s) :
             s[i] = "," /\ \A j \in (Len(s) \div 2 + 1)..(i - 1) : s[j] # ","
    ELSE CHOOSE i \in 1..Len(s) :
             s[i] = "," /\ \A j \in (i + 1)..Len(s) : s[j] # ","

RECURSIVE Split(_)
\* What is left and right of the separator at place cut.
SplitAt(s, cut) ==
    Split(SubSeq(s, 1, cut - 1)) \o Split(SubSeq(s, cut + 1, Len(s)))

\* strings.Split(s, ","): the substrings between the separators; a string
\* without separator, the empty string too, yields one element.
Split(s) ==
    IF \A i \in 1..Len(s) : s[i] # "," THEN <<s>> ELSE SplitAt(s, CutAt(s))

(***************************************************************************)
(* float64.  A positive double is [m, e]: m its 53 mantissa bits, most     *)
(* significant first and leading bit 1, its value (m as a binary number)   *)
(* times 2^e.  Zero is [m |-> <<>>, e |-> 0].  Only the operations of      *)
(* newVoteResults are modelled: conversion of an unsigned integer,         *)
(* division by 100, multiplication, and conversion back by truncation;     *)
(* each rounds to nearest, ties to even, as IEEE 754 does.                 *)
(***************************************************************************)
MantissaBits == 53

\* The number of binary digits of n, 0 <= n < 2^30.
BitLen(n) == CHOOSE k \in 0..30 : n < 2^k /\ (k = 0 \/ n >= 2^(k - 1))

\* The w low binary digits of v, most significant first.
FixedBits(v, w) == <<>> \o [i \in 1..w |-> (v \div 2^(w - i)) % 2]

\* The binary digits of n, most significant first; <<>> for 0.
NatToBits(n) == FixedBits(n, BitLen(n))

RECURSIVE BitsToNat(_, _)
\* The number whose binary digits are the first k of b.
BitsToNat(b, k) == IF k = 0 THEN 0 ELSE 2 * BitsToNat(b, k - 1) + b[k]

\* The place of the first 1 of b.
FirstOne(b) == CHOOSE i \in 1..Len(b) : b[i] = 1 /\ \A j \in 1..(i - 1) : b[j] = 0

StripZeros(b) ==
    IF \A i \in 1..Len(b) : b[i] = 0 THEN <<>>
    ELSE SubSeq(b, FirstOne(b), Len(b))

Zeros(k) == <<>> \o [i \in 1..k |-> 0]

\* b + 1 on a bit sequence; the result is one bit longer when b is all ones.
IncBits(b) ==
    IF \A i \in 1..Len(b) : b[i] = 1 THEN <<1>> \o Zeros(Len(b))
    ELSE <<>> \o [i \in 1..Len(b) |->
                     IF \A j \in (i + 1)..Len(b) : b[j] = 1
                     THEN 1 - b[i] ELSE b[i]]

\* The double of mantissa r, which rounding up may have made one bit longer.
Renormalize(r, ex) ==
    IF Len(r) > MantissaBits
    THEN [m |-> SubSeq(r, 1, MantissaBits), e |-> ex + 1]
    ELSE [m |-> r, e |-> ex]

\* Round to nearest, ties to even: b has more than 53 bits and no leading
\* zero; sticky says that nonzero bits follow b.
RoundHalfEven(b, e0, sticky) ==
    Renormalize(
        IF /\ b[MantissaBits + 1] = 1
           /\ \/ sticky
              \/ \E i \in (MantissaBits + 2)..Len(b) : b[i] = 1
              \/ b[MantissaBits] = 1
        THEN IncBits(SubSeq(b, 1, MantissaBits))
        ELSE SubSeq(b, 1, MantissaBits),
        e0 + (Len(b) - MantissaBits))

RoundStripped(b, e0, sticky) ==
    IF b = <<>> THEN [m |-> <<>>, e |-> 0]
    ELSE IF Len(b) <= MantissaBits
    THEN [m |-> b \o Zeros(MantissaBits - Len(b)),
          e |-> e0 - (MantissaBits - Len(b))]
    ELSE RoundHalfEven(b, e0, sticky)

\* Round the positive number (b0 as binary) * 2^e0, whose bits beyond b0 are
\* all zero iff ~sticky, to a double.
RoundToDouble(b0, e0, sticky) == RoundStripped(StripZeros(b0), e0, sticky)

\* float64(n) of an unsigned integer below 2^30: exact.
Float64(n) == RoundToDouble(NatToBits(n), 0, FALSE)

SquareMod(v, d) == (v * v) % d

RECURSIVE Pow2Mod(_, _)
\* 2^k mod d, d <= 2^15, by repeated squaring.
Pow2Mod(k, d) ==
    IF k = 0 THEN 1 % d
    ELSE IF k % 2 = 0 THEN SquareMod(Pow2Mod(k \div 2, d), d)
    ELSE (2 * Pow2Mod(k - 1, d)) % d

\* (r * 2^k) mod d: the remainder left after k binary places of r/d.
FracRem(r, d, k) == (r * Pow2Mod(k, d)) % d

\* Binary places 16j+1 .. 16j+16 of r/d, 0 <= r < d <= 2^15: one step of
\* long division in base 2^16.
FracLimb(r, d, j) == FixedBits((FracRem(r, d, 16 * j) * 2^16) \div d, 16)

\* The first 64 binary places of r/d, 0 <= r < d.
FracBits(r, d) ==
    FracLimb(r, d, 0) \o FracLimb(r, d, 1) \o FracLimb(r, d, 2)
        \o FracLimb(r, d, 3)

\* float64(n) / 100: the correctly rounded quotient.  The quotient of a
\* positive integer by 100 has its leading bit at most 7 places after the
\* binary point, so 64 binary places hold the mantissa and a round bit.
Float64Div100(n) ==
    RoundToDouble(NatToBits(n \div 100) \o FracBits(n % 100, 100),
                  0 - 64,
                  FracRem(n % 100, 100, 64) # 0)

RECURSIVE SegNat(_, _, _)
\* The number whose binary digits are b[lo..hi].
SegNat(b, lo, hi) == IF hi < lo THEN 0 ELSE 2 * SegNat(b, lo, hi - 1) + b[hi]

\* The binary digits of p2 * 2^36 + p1 * 2^18 + p0 for p0, p1 that may
\* exceed 18 bits: the carries are passed up.
CarryBits(p2, p1, p0) ==
    NatToBits(p2 + (p1 + p0 \div 2^18) \div 2^18)
        \o FixedBits((p1 + p0 \div 2^18) % 2^18, 18)
        \o FixedBits(p0 % 2^18, 18)

\* The binary digits of (b as binary) * n for a mantissa b and n < 2^12:
\* schoolbook multiplication on three limbs of at most 18 bits.
MulBits(b, n) ==
    CarryBits(SegNat(b, 1, Len(b) - 36) * n,
              SegNat(b, Len(b) - 35, Len(b) - 18) * n,
              SegNat(b, Len(b) - 17, Len(b)) * n)

\* fx * float64(n) for a double fx and an unsigned integer n below 2^12 (so
\* that float64(n) is n itself): the exact product, rounded once.
Float64MulNat(fx, n) ==
    IF fx.m = <<>> \/ n = 0 THEN [m |-> <<>>, e |-> 0]
    ELSE RoundToDouble(MulBits(fx.m, n), fx.e, FALSE)

\* uint64(fx): truncation toward zero, for 0 <= fx < 2^30.
Uint64(fx) ==
    IF fx.m = <<>> THEN 0
    ELSE IF fx.e >= 0 THEN BitsToNat(fx.m \o Zeros(fx.e), Len(fx.m) + fx.e)
    ELSE IF 0 - fx.e >= Len(fx.m) THEN 0
    ELSE BitsToNat(fx.m, Len(fx.m) + fx.e)

\* uint64(float64(pct) / 100 * float64(n))
PercentOf(pct, n) == Uint64(Float64MulNat(Float64Div100(pct), n))

(***************************************************************************)
(* The state.  The first group is the tables of the cockroachdb cache that *)
(* the plugin reads and writes; the second the maps of the in-memory       *)
(* testcache; the third the maps of TestPoliteiad, the test double of the  *)
(* politeiad server; last is the most recent call and what it returned.    *)
(***************************************************************************)
VARIABLES
    records,            \* records table: rows [token, version, status]
    comments,           \* comments table, primary key key
    likes,              \* comment_likes table, in insertion order
    authorizeVotes,     \* authorize_votes table, primary key key
    startVotes,         \* start_votes table with its vote_options
    castVotes,          \* cast_votes table, in insertion order
    voteResults,        \* vote_results table with its vote_option_results
    tables,             \* the names of the tables that exist
    versions,           \* versions table: rows [id, version, timestamp]
    tcRecords,          \* testcache.records         [token][version]
    tcAuthorizeVotes,   \* testcache.authorizeVotes  [token][version]
    tcStartVotes,       \* testcache.startVotes      [token]
    tcStartVoteReplies, \* testcache.startVoteReplies [token]
    tcComments,         \* testcache.comments        [token]
    tpStartVotes,       \* TestPoliteiad.startVotes       [token]
    tpStartVoteReplies, \* TestPoliteiad.startVoteReplies [token]
    mutex,              \* the sync.RWMutex of the testcache and of
                        \* TestPoliteiad: its writer and its readers
    running,            \* the call each goroutine is executing: its
                        \* command, position, locals and transaction
    last                \* the last call: its arguments, error and reply

dbVars == <<records, comments, likes, authorizeVotes, startVotes, castVotes,
            voteResults, tables, versions>>
tcVars == <<tcRecords, tcAuthorizeVotes, tcStartVotes, tcStartVoteReplies,
            tcComments>>
tpVars == <<tpStartVotes, tpStartVoteReplies>>
ccVars == <<mutex, running>>
vars == <<dbVars, tcVars, tpVars, ccVars, last>>

\* The database as one value: what a handler reads and what it returns.
DB == [records |-> records, comments |-> comments, likes |-> likes,
       authorizeVotes |-> authorizeVotes, startVotes |-> startVotes,
       castVotes |-> castVotes, voteResults |-> voteResults,
       tables |-> tables, versions |-> versions]

EmptyDB == [records |-> {}, comments |-> {}, likes |-> <<>>,
            authorizeVotes |-> {}, startVotes |-> {}, castVotes |-> <<>>,
            voteResults |-> {}, tables |-> {}, versions |-> {}]

(***************************************************************************)
(* Errors and payloads.  A payload is a record with the flag ok: whether   *)
(* it decodes; a payload that does not decode has no other field read.     *)
(***************************************************************************)
ErrNil == "nil"
ErrDecode == "DecodeError"
ErrParse == "ParseUintError"
ErrStorage == "StorageError"
ErrDuplicateKey == "DuplicateKeyError"
ErrRecordNotFound == "ErrRecordNotFound"
ErrInvalidPluginCmd == "ErrInvalidPluginCmd"

EmptyPayload == [ok |-> FALSE, text |-> ""]
Malformed == [ok |-> FALSE, text |-> "{"]

CmdAuthorizeVote == "authorizevote"
CmdStartVote == "startvote"
CmdVoteDetails == "votedetails"
CmdBallot == "ballot"
CmdBestBlock == "bestblock"
CmdNewComment == "newcomment"
CmdLikeComment == "likecomment"
CmdCensorComment == "censorcomment"
CmdGetComment == "getcomment"
CmdGetComments == "getcomments"
CmdProposalVotes == "proposalvotes"
CmdCommentLikes == "commentlikes"
CmdProposalCommentsLikes == "proposalcommentslikes"
CmdInventory == "inventory"
CmdLoadVoteResults == "loadvoteresults"
CmdTokenInventory == "tokeninventory"
CmdVoteSummary == "votesummary"

AuthVoteActionAuthorize == "authorize"
AuthVoteActionRevoke == "revoke"
voteOptionIDApproved == "yes"

\* The value of last before any call.
NoCall == [impl |-> "none", cmd |-> "none", cmdPayload |-> EmptyPayload,
           replyPayload |-> EmptyPayload, env |-> [fault |-> 0, order |-> <<>>],
           err |-> "nil", reply |-> EmptyPayload]

\* What a handler returns: the database it leaves, the reply and the error.
Result(db, reply, err) == [db |-> db, reply |-> reply, err |-> err]

\* The environment of one call: fault is the number of the write (in the
\* order the handler issues them, a commit counted as the last) that the
\* database fails, 0 for none; order is the order in which a query without
\* ORDER BY returns its rows (tokens earlier in it first).
Env(fault, order) == [fault |-> fault, order |-> order]

(***************************************************************************)
(* Goroutines.  Each executes one call at a time; running[g] is the call  *)
(* of goroutine g, at rest between two of its statements that touch shared *)
(* state.  mutex[o] is the sync.RWMutex embedded in the object o: the      *)
(* goroutine that holds it for writing, 0 for none, and the goroutines     *)
(* that hold it for reading.                                               *)
(***************************************************************************)
MaxGoroutines == 2

Goroutines == 1..MaxGoroutines

Idle == [impl |-> "none", cmd |-> "none", pc |-> 0, cp |-> EmptyPayload,
         rp |-> EmptyPayload, env |-> [fault |-> 0, order |-> <<>>],
         local |-> <<>>]

NoCalls == [g \in Goroutines |-> Idle]

RWMutex == [writer |-> 0, readers |-> {}]

Unlocked == [testcache |-> RWMutex, testpoliteiad |-> RWMutex]

\* sync.RWMutex: Lock waits until nobody holds the mutex, RLock until no
\* writer does.
CanLock(m) == m.writer = 0 /\ m.readers = {}
CanRLock(m) == m.writer = 0
Lock(m, g) == [m EXCEPT !.writer = g]
Unlock(m, g) == [m EXCEPT !.writer = 0]
RLock(m, g) == [m EXCEPT !.readers = @ \cup {g}]
RUnlock(m, g) == [m EXCEPT !.readers = @ \ {g}]

RECURSIVE SeqToSet(_)
SeqToSet(seq) == IF seq = <<>> THEN {} ELSE {Head(seq)} \cup SeqToSet(Tail(seq))

(***************************************************************************)
(* The database (gorm over cockroachdb).  A table with a primary key holds *)
(* at most one row per key and Create fails on a key that is taken; a      *)
(* table with a surrogate key (comment_likes, cast_votes) is a log.  A     *)
(* transaction is the database value the handler works on: Commit makes    *)
(* it the database, Rollback drops it.                                     *)
(***************************************************************************)
PrimaryKey(row) == IF "key" \in DOMAIN row THEN row.key ELSE row.token

\* db.Create(&row) on a table with a primary key: <<table, error>>.
\* Create on a table without primary key: the row is added whatever rows
\* there are.  OneVoteResultsPerToken fails for a cache built on it.
CreateWithoutKey(table, row, failed) ==
    IF failed THEN <<table, ErrStorage>>
    ELSE <<table \cup {row}, ErrNil>>

Create(table, row, failed) ==
    IF failed THEN <<table, ErrStorage>>
    ELSE IF \E r \in table : PrimaryKey(r) = PrimaryKey(row)
    THEN <<table, ErrDuplicateKey>>
    ELSE <<table \cup {row}, ErrNil>>

\* An ErrRecordNotFound of gorm is reported as "no row": Find on a struct.
Found(rows) == rows # {}
First(rows) == CHOOSE r \in rows : TRUE

(***************************************************************************)
(* Converters (politeiad/cache/cockroachdb/convert.go).  Signature and     *)
(* PublicKey, which every converter copies like the fields beside them,    *)
(* are kept in the rows of comments and left out of the other rows.        *)
(***************************************************************************)
convertAuthorizeVoteFromFonero(av, avr, version) ==
    [key |-> av.token \o avr.recordVersion, token |-> av.token,
     version |-> version, action |-> av.action,
     receipt |-> avr.receipt, timestamp |-> avr.timestamp]

convertAuthorizeVoteToFonero(av) ==
    [action |-> av.action, token |-> av.token,
     receipt |-> av.receipt, timestamp |-> av.timestamp]

convertStartVoteFromFonero(sv, svr, endHeight) ==
    [token |-> sv.token, mask |-> sv.mask, duration |-> sv.duration,
     quorumPercentage |-> sv.quorumPercentage,
     passPercentage |-> sv.passPercentage,
     options |-> [i \in 1..Len(sv.options) |->
                     [token |-> sv.token, id |-> sv.options[i].id,
                      bits |-> sv.options[i].bits]],
     endHeight |-> endHeight,
     eligibleTickets |-> Join(svr.eligibleTickets),
     eligibleTicketCount |-> Len(svr.eligibleTickets)]

convertStartVoteToFonero(sv) ==
    [startVote |->
        [token |-> sv.token, mask |-> sv.mask, duration |-> sv.duration,
         quorumPercentage |-> sv.quorumPercentage,
         passPercentage |-> sv.passPercentage,
         options |-> [i \in 1..Len(sv.options) |->
                         [id |-> sv.options[i].id, bits |-> sv.options[i].bits]]],
     startVoteReply |->
        [endHeight |-> FormatUint(sv.endHeight, 10),
         eligibleTickets |-> IF sv.eligibleTickets # <<>>
                             THEN Split(sv.eligibleTickets) ELSE <<>>]]

convertCastVoteFromFonero(cv) ==
    [token |-> cv.token, ticket |-> cv.ticket, voteBit |-> cv.voteBit,
     tokenVoteBit |-> cv.token \o cv.voteBit]

convertCastVoteToFonero(cv) ==
    [token |-> cv.token, ticket |-> cv.ticket, voteBit |-> cv.voteBit]

convertVoteOptionResultToFonero(r) ==
    [id |-> r.option.id, bits |-> r.option.bits, votes |-> r.votes]

convertVoteOptionResultsToFonero(rs) ==
    [i \in 1..Len(rs) |-> convertVoteOptionResultToFonero(rs[i])]

\* The zero values of Go: what a lookup that found no row leaves.
ZeroAuthorizeVote ==
    [key |-> <<>>, token |-> <<>>, version |-> 0, action |-> "",
     receipt |-> "", timestamp |-> 0]
ZeroStartVote ==
    [token |-> <<>>, mask |-> 0, duration |-> 0, quorumPercentage |-> 0,
     passPercentage |-> 0, options |-> <<>>, endHeight |-> 0,
     eligibleTickets |-> <<>>, eligibleTicketCount |-> 0]

convertNewCommentFromFonero(nc, ncr) ==
    [key |-> nc.token \o ncr.commentID, token |-> nc.token,
     parentID |-> nc.parentID, comment |-> nc.comment,
     signature |-> nc.signature, publicKey |-> nc.publicKey,
     commentID |-> ncr.commentID, receipt |-> ncr.receipt,
     timestamp |-> ncr.timestamp, censored |-> FALSE]

convertCommentFromFonero(c) ==
    [key |-> c.token \o c.commentID, token |-> c.token,
     parentID |-> c.parentID, comment |-> c.comment,
     signature |-> c.signature, publicKey |-> c.publicKey,
     commentID |-> c.commentID, receipt |-> c.receipt,
     timestamp |-> c.timestamp, censored |-> FALSE]

convertCommentToFonero(c) ==
    [token |-> c.token, parentID |-> c.parentID, comment |-> c.comment,
     signature |-> c.signature, publicKey |-> c.publicKey,
     commentID |-> c.commentID, receipt |-> c.receipt,
     timestamp |-> c.timestamp, totalVotes |-> 0, resultVotes |-> 0,
     censored |-> c.censored]

convertLikeCommentFromFonero(lc) ==
    [token |-> lc.token, commentID |-> lc.commentID, action |-> lc.action]

convertLikeCommentToFonero(lc) ==
    [token |-> lc.token, commentID |-> lc.commentID, action |-> lc.action]

(***************************************************************************)
(* Comments                                                                *)
(***************************************************************************)
newComment(db, c, failed) ==
    LET created == Create(db.comments, c, failed)
    IN  <<[db EXCEPT !.comments = created[1]], created[2]>>

cmdNewComment(db, cmdPayload, replyPayload, env) ==
    IF ~cmdPayload.ok THEN Result(db, EmptyPayload, ErrDecode)
    ELSE IF ~replyPayload.ok THEN Result(db, EmptyPayload, ErrDecode)
    ELSE LET c == convertNewCommentFromFonero(cmdPayload, replyPayload)
             r == newComment(db, c, env.fault = 1)
         IN  Result(r[1], replyPayload, r[2])

\* newLikeComment that keeps one like for each comment: a new like takes
\* the place of the one stored.  LikesAppendOnly fails for a cache built
\* on it.
newLikeCommentReplaces(db, lc, failed) ==
    IF failed THEN <<db, ErrStorage>>
    ELSE <<[db EXCEPT !.likes =
               Append(SelectSeq(@, LAMBDA l : \/ l.token # lc.token
                                              \/ l.commentID # lc.commentID),
                      lc)], ErrNil>>

newLikeComment(db, lc, failed) ==
    IF failed THEN <<db, ErrStorage>>
    ELSE <<[db EXCEPT !.likes = Append(@, lc)], ErrNil>>

\* cmdLikeComment answering with an empty payload instead of the reply
\* payload.  ReplyPayloadReturned fails for a cache built on it.
cmdLikeCommentNoReply(db, cmdPayload, replyPayload, env) ==
    IF ~cmdPayload.ok THEN Result(db, EmptyPayload, ErrDecode)
    ELSE LET r == newLikeComment(db, convertLikeCommentFromFonero(cmdPayload),
                                 env.fault = 1)
         IN  Result(r[1], EmptyPayload, r[2])

cmdLikeComment(db, cmdPayload, replyPayload, env) ==
    IF ~cmdPayload.ok THEN Result(db, EmptyPayload, ErrDecode)
    ELSE LET r == newLikeComment(db, convertLikeCommentFromFonero(cmdPayload),
                                 env.fault = 1)
         IN  Result(r[1], replyPayload, r[2])

\* cmdCensorComment that deletes the row of the comment.
\* CommentRowsKept fails for a cache built on it.
cmdCensorCommentDeletes(db, cmdPayload, replyPayload, env) ==
    IF ~cmdPayload.ok THEN Result(db, EmptyPayload, ErrDecode)
    ELSE IF env.fault = 1 THEN Result(db, replyPayload, ErrStorage)
    ELSE Result([db EXCEPT !.comments =
                    {c \in @ : c.key # cmdPayload.token
                                           \o cmdPayload.commentID}],
                replyPayload, ErrNil)

\* cmdCensorComment that marks the comment and keeps its text.
\* CensoredCommentRead fails for a cache built on it.
cmdCensorCommentKeepsText(db, cmdPayload, replyPayload, env) ==
    IF ~cmdPayload.ok THEN Result(db, EmptyPayload, ErrDecode)
    ELSE IF env.fault = 1 THEN Result(db, replyPayload, ErrStorage)
    ELSE LET key == cmdPayload.token \o cmdPayload.commentID
             updated == {IF key = <<>> \/ c.key = key
                         THEN [c EXCEPT !.censored = TRUE]
                         ELSE c : c \in db.comments}
         IN  Result([db EXCEPT !.comments = updated], replyPayload, ErrNil)

\* UPDATE comments SET comment = '', censored = true WHERE key = ?; gorm
\* leaves the WHERE out when the primary key of the model is blank.
cmdCensorComment(db, cmdPayload, replyPayload, env) ==
    IF ~cmdPayload.ok THEN Result(db, EmptyPayload, ErrDecode)
    ELSE IF env.fault = 1 THEN Result(db, replyPayload, ErrStorage)
    ELSE LET key == cmdPayload.token \o cmdPayload.commentID
             hit(c) == key = <<>> \/ c.key = key
             updated == {IF hit(c)
                         THEN [c EXCEPT !.comment = "", !.censored = TRUE]
                         ELSE c : c \in db.comments}
         IN  Result([db EXCEPT !.comments = updated], replyPayload, ErrNil)

\* Find(&c) with c.Key set; gorm leaves the condition out when it is blank.
cmdGetComment(db, payload) ==
    IF ~payload.ok THEN Result(db, EmptyPayload, ErrDecode)
    ELSE LET key == payload.token \o payload.commentID
             cs  == {c \in db.comments : key = <<>> \/ c.key = key}
         IN  IF ~Found(cs) THEN Result(db, EmptyPayload, ErrRecordNotFound)
             ELSE Result(db, [ok |-> TRUE,
                              comment |-> convertCommentToFonero(First(cs))],
                         ErrNil)

cmdGetComments(db, payload) ==
    IF ~payload.ok THEN Result(db, EmptyPayload, ErrDecode)
    ELSE Result(db,
                [ok |-> TRUE,
                 comments |-> {convertCommentToFonero(c) :
                     c \in {r \in db.comments : r.token = payload.token}}],
                ErrNil)

likeReplies(ls) == [i \in 1..Len(ls) |-> convertLikeCommentToFonero(ls[i])]

cmdCommentLikes(db, payload) ==
    IF ~payload.ok THEN Result(db, EmptyPayload, ErrDecode)
    ELSE Result(db,
                [ok |-> TRUE,
                 commentLikes |-> likeReplies(SelectSeq(db.likes, LAMBDA l :
                     l.token = payload.token
                         /\ l.commentID = payload.commentID))],
                ErrNil)

cmdProposalCommentsLikes(db, payload) ==
    IF ~payload.ok THEN Result(db, EmptyPayload, ErrDecode)
    ELSE Result(db,
                [ok |-> TRUE,
                 commentsLikes |-> likeReplies(SelectSeq(db.likes, LAMBDA l :
                     l.token = payload.token))],
                ErrNil)

cmdInventory(db) ==
    Result(db, [ok |-> TRUE,
                comments |-> {convertCommentToFonero(c) : c \in db.comments}],
           ErrNil)

(***************************************************************************)
(* authorizevote                                                           *)
(***************************************************************************)
\* newAuthorizeVote without its DELETE: the row is inserted over whatever
\* the table holds.  AuthorizeVoteReplaces fails for a cache built on it.
newAuthorizeVoteInsertOnly(tx, av, env) ==
    IF env.fault = 1 THEN <<tx, ErrStorage>>
    ELSE <<[tx EXCEPT !.authorizeVotes =
                Create(tx.authorizeVotes, av, env.fault = 2)[1]],
           Create(tx.authorizeVotes, av, env.fault = 2)[2]>>

\* newAuthorizeVote on the transaction tx: delete the row of av's key, then
\* create av.  <<tx as it leaves it, error>>.
newAuthorizeVote(tx, av, env) ==
    IF env.fault = 1 THEN <<tx, ErrStorage>>
    ELSE LET deleted == {r \in tx.authorizeVotes : r.key # av.key}
             created == Create(deleted, av, env.fault = 2)
         IN  <<[tx EXCEPT !.authorizeVotes = created[1]], created[2]>>

\* cmdAuthorizeVote without tx.Rollback(): what newAuthorizeVote did before
\* it failed stays.  WriteFailureKeepsRows fails for a cache built on it.
cmdAuthorizeVoteNoRollback(db, cmdPayload, replyPayload, env) ==
    IF ~cmdPayload.ok THEN Result(db, EmptyPayload, ErrDecode)
    ELSE IF ~replyPayload.ok THEN Result(db, EmptyPayload, ErrDecode)
    ELSE LET v == ParseUint(replyPayload.recordVersion)
         IN  IF v < 0 THEN Result(db, EmptyPayload, ErrParse)
             ELSE LET a  == convertAuthorizeVoteFromFonero(
                                cmdPayload, replyPayload, v)
                      tx == newAuthorizeVote(db, a, env)
                  IN  IF tx[2] # ErrNil
                      THEN Result(tx[1], EmptyPayload, tx[2])
                      ELSE IF env.fault = 3
                      THEN Result(db, EmptyPayload, ErrStorage)
                      ELSE Result(tx[1], replyPayload, ErrNil)

cmdAuthorizeVote(db, cmdPayload, replyPayload, env) ==
    IF ~cmdPayload.ok THEN Result(db, EmptyPayload, ErrDecode)
    ELSE IF ~replyPayload.ok THEN Result(db, EmptyPayload, ErrDecode)
    ELSE LET v == ParseUint(replyPayload.recordVersion)
         IN  IF v < 0 THEN Result(db, EmptyPayload, ErrParse)
             ELSE LET a  == convertAuthorizeVoteFromFonero(
                                cmdPayload, replyPayload, v)
                      tx == newAuthorizeVote(db, a, env)
                  IN  IF tx[2] # ErrNil
                      THEN Result(db, EmptyPayload, tx[2])      \* Rollback
                      ELSE IF env.fault = 3
                      THEN Result(db, EmptyPayload, ErrStorage) \* Commit fails
                      ELSE Result(tx[1], replyPayload, ErrNil)

(***************************************************************************)
(* startvote                                                               *)
(***************************************************************************)
newStartVote(db, sv, env) ==
    LET created == Create(db.startVotes, sv, env.fault = 1)
    IN  <<[db EXCEPT !.startVotes = created[1]], created[2]>>

cmdStartVote(db, cmdPayload, replyPayload, env) ==
    IF ~cmdPayload.ok THEN Result(db, EmptyPayload, ErrDecode)
    ELSE IF ~replyPayload.ok THEN Result(db, EmptyPayload, ErrDecode)
    ELSE LET endHeight == ParseUint(replyPayload.endHeight)
         IN  IF endHeight < 0 THEN Result(db, EmptyPayload, ErrParse)
             ELSE LET sv == convertStartVoteFromFonero(
                                cmdPayload, replyPayload, endHeight)
                      r  == newStartVote(db, sv, env)
                  IN  IF r[2] # ErrNil
                      THEN Result(r[1], EmptyPayload, r[2])
                      ELSE Result(r[1], replyPayload, ErrNil)

(***************************************************************************)
(* ballot                                                                  *)
(***************************************************************************)
\* newCastVote: the i-th write of the handler that calls it.
newCastVote(db, cv, failed) ==
    IF failed THEN <<db, ErrStorage>>
    ELSE <<[db EXCEPT !.castVotes = Append(@, cv)], ErrNil>>

RECURSIVE ballotLoop(_, _, _, _)
\* The loop of cmdNewBallot from vote i on: <<tx, error>> at the first
\* failure or at the end.
ballotLoop(tx, votes, i, env) ==
    IF i > Len(votes) THEN <<tx, ErrNil>>
    ELSE LET r == newCastVote(tx, convertCastVoteFromFonero(votes[i]),
                              env.fault = i)
         IN  IF r[2] # ErrNil THEN r
             ELSE ballotLoop(r[1], votes, i + 1, env)

\* cmdNewBallot without its transaction: each insert is written to the
\* database at once.  BallotAllOrNothing fails for a cache built on it.
cmdNewBallotNoTransaction(db, cmdPayload, replyPayload, env) ==
    IF ~cmdPayload.ok THEN Result(db, EmptyPayload, ErrDecode)
    ELSE Result(ballotLoop(db, cmdPayload.votes, 1, env)[1],
                IF ballotLoop(db, cmdPayload.votes, 1, env)[2] = ErrNil
                THEN replyPayload ELSE EmptyPayload,
                ballotLoop(db, cmdPayload.votes, 1, env)[2])

cmdNewBallot(db, cmdPayload, replyPayload, env) ==
    IF ~cmdPayload.ok THEN Result(db, EmptyPayload, ErrDecode)
    ELSE LET tx == ballotLoop(db, cmdPayload.votes, 1, env)
         IN  IF tx[2] # ErrNil
             THEN Result(db, EmptyPayload, tx[2])               \* Rollback
             ELSE IF env.fault = Len(cmdPayload.votes) + 1
             THEN Result(db, EmptyPayload, ErrStorage)          \* Commit fails
             ELSE Result(tx[1], replyPayload, ErrNil)

\* cmdProposalVotes that fails when the token has no StartVote.
\* NoRowsEmptyReply fails for a cache built on it.
cmdProposalVotesOfStarted(db, payload) ==
    IF ~payload.ok THEN Result(db, EmptyPayload, ErrDecode)
    ELSE LET svs == {r \in db.startVotes : r.token = payload.token}
             cv  == SelectSeq(db.castVotes, LAMBDA v : v.token = payload.token)
         IN  IF ~Found(svs) THEN Result(db, EmptyPayload, ErrRecordNotFound)
             ELSE Result(db,
                    [ok |-> TRUE,
                     startVote |-> convertStartVoteToFonero(First(svs)).startVote,
                     castVotes |-> [i \in 1..Len(cv) |->
                                       convertCastVoteToFonero(cv[i])]],
                    ErrNil)

cmdProposalVotes(db, payload) ==
    IF ~payload.ok THEN Result(db, EmptyPayload, ErrDecode)
    ELSE LET svs == {r \in db.startVotes : r.token = payload.token}
             sv  == IF Found(svs) THEN First(svs) ELSE ZeroStartVote
             cv  == SelectSeq(db.castVotes, LAMBDA v : v.token = payload.token)
         IN  Result(db,
                    [ok |-> TRUE,
                     startVote |-> convertStartVoteToFonero(sv).startVote,
                     castVotes |-> [i \in 1..Len(cv) |->
                                       convertCastVoteToFonero(cv[i])]],
                    ErrNil)

(***************************************************************************)
(* loadvoteresults                                                         *)
(***************************************************************************)
RECURSIVE SumVotes(_, _)
\* total += v.Votes over results[1..k]
SumVotes(results, k) ==
    IF k = 0 THEN 0 ELSE SumVotes(results, k - 1) + results[k].votes

RECURSIVE ApprovedVotes(_, _)
\* The loop that looks for the option whose ID is "yes" in results[1..k]:
\* the last such option wins, 0 if there is none.
ApprovedVotes(results, k) ==
    IF k = 0 THEN 0
    ELSE IF results[k].option.id = voteOptionIDApproved THEN results[k].votes
    ELSE ApprovedVotes(results, k - 1)

\* The option results of newVoteResults: for each option of the StartVote,
\* the number of cast votes cv whose vote bit is the option's bits in hex.
\* The option results with every cast vote of the token counted for every
\* option.  ResultsCountByBit fails for a cache built on it.
tallyOptionsOfToken(token, sv, cv) ==
    [i \in 1..Len(sv.options) |->
        [key |-> token \o FormatUint(sv.options[i].bits, 16),
         votes |-> Len(cv),
         option |-> sv.options[i]]]

\* The option results with the last cast vote alone counted.
\* VoteResultsOrderFree fails for a cache built on it.
tallyOptionsOfLastVote(token, sv, cv) ==
    [i \in 1..Len(sv.options) |->
        [key |-> token \o FormatUint(sv.options[i].bits, 16),
         votes |-> IF cv # <<>>
                      /\ cv[Len(cv)].voteBit
                             = FormatUint(sv.options[i].bits, 16)
                   THEN 1 ELSE 0,
         option |-> sv.options[i]]]

tallyOptions(token, sv, cv) ==
    [i \in 1..Len(sv.options) |->
        [key |-> token \o FormatUint(sv.options[i].bits, 16),
         votes |-> Len(SelectSeq(cv, LAMBDA v :
                       v.voteBit = FormatUint(sv.options[i].bits, 16))),
         option |-> sv.options[i]]]

\* The approved flag with the pass threshold taken of the eligible tickets,
\* as the quorum is, rather than of the votes cast.  ScenarioApproved fails
\* for a cache built on it.
tallyApprovedOfEligible(sv, results) ==
    IF SumVotes(results, Len(results))
           < PercentOf(sv.quorumPercentage, Len(Split(sv.eligibleTickets)))
    THEN FALSE
    ELSE IF ApprovedVotes(results, Len(results))
                < PercentOf(sv.passPercentage, Len(Split(sv.eligibleTickets)))
    THEN FALSE
    ELSE TRUE

\* The approved flag of newVoteResults from the option results.
tallyApproved(sv, results) ==
    IF SumVotes(results, Len(results))
           < PercentOf(sv.quorumPercentage, Len(Split(sv.eligibleTickets)))
    THEN FALSE                                      \* quorum not met
    ELSE IF ApprovedVotes(results, Len(results))
                < PercentOf(sv.passPercentage, SumVotes(results, Len(results)))
    THEN FALSE                                      \* pass not met
    ELSE TRUE

voteResultsRow(token, sv, results) ==
    [token |-> token, approved |-> tallyApproved(sv, results),
     results |-> results]

\* The VoteResults row that newVoteResults computes for the StartVote sv
\* from the cast_votes rows cv of its token.
tallyVoteResults(token, sv, cv) ==
    voteResultsRow(token, sv, tallyOptions(token, sv, cv))

\* The database with the table vote_results as Create left it.
voteResultsCreated(db, created) ==
    <<[db EXCEPT !.voteResults = created[1]], created[2]>>

\* newVoteResults(token): <<database, error>>.  failed: the database fails
\* the insert.
newVoteResults(db, token, failed) ==
    IF ~\E r \in db.startVotes : r.token = token
    THEN <<db, ErrRecordNotFound>>
    ELSE voteResultsCreated(db,
             Create(db.voteResults,
                    tallyVoteResults(
                        token,
                        CHOOSE r \in db.startVotes : r.token = token,
                        SelectSeq(db.castVotes, LAMBDA v : v.token = token)),
                    failed))

\* The query of cmdLoadVoteResults without "vote_results.token IS NULL":
\* every vote that has ended.  LoadVoteResultsTwice fails for a cache built
\* on it.
loadVoteResultsQueryEnded(db, bestBlock) ==
    {sv.token : sv \in {r \in db.startVotes : r.endHeight <= bestBlock}}

\* The query of cmdLoadVoteResults without "end_height <= bestBlock": every
\* vote without results, ended or not.  VoteResultsOnlyLoaded fails for a
\* cache built on it.
loadVoteResultsQueryUnended(db, bestBlock) ==
    {sv.token : sv \in {r \in db.startVotes :
        ~\E vr \in db.voteResults : vr.token = r.token}}

\* SELECT start_votes.token FROM start_votes LEFT OUTER JOIN vote_results ...
\* WHERE start_votes.end_height <= bestBlock AND vote_results.token IS NULL
loadVoteResultsQuery(db, bestBlock) ==
    {sv.token : sv \in {r \in db.startVotes :
        /\ r.endHeight <= bestBlock
        /\ ~\E vr \in db.voteResults : vr.token = r.token}}

\* The rows of a query without ORDER BY, in the order the database returns
\* them: the order of env.order.
Rows(tokens, env) == SelectSeq(env.order, LAMBDA t : t \in tokens)

RECURSIVE loadVoteResultsLoop(_, _, _, _)
\* The loop over the tokens once newVoteResults returned r for the i-th.
loadVoteResultsNext(r, tokens, i, env) ==
    IF r[2] # ErrNil THEN r
    ELSE loadVoteResultsLoop(r[1], tokens, i + 1, env)

\* The loop over the tokens from the i-th on: <<database, error>>.
loadVoteResultsLoop(db, tokens, i, env) ==
    IF i > Len(tokens) THEN <<db, ErrNil>>
    ELSE loadVoteResultsNext(newVoteResults(db, tokens[i], env.fault = i),
                             tokens, i, env)

\* What cmdLoadVoteResults returns once the loop returned r.
loadVoteResultsReturn(r) ==
    IF r[2] # ErrNil THEN Result(r[1], EmptyPayload, r[2])
    ELSE Result(r[1], [ok |-> TRUE], ErrNil)

\* cmdLoadVoteResults as a refresh: the results of every vote that has
\* ended are dropped and tallied anew.  VoteResultsKept fails for a cache
\* built on it.
cmdLoadVoteResultsRefresh(db, payload, env) ==
    IF ~payload.ok THEN Result(db, EmptyPayload, ErrDecode)
    ELSE loadVoteResultsReturn(
             loadVoteResultsLoop(
                 [db EXCEPT !.voteResults =
                     {vr \in @ : vr.token \notin
                         loadVoteResultsQueryEnded(db, payload.bestBlock)}],
                 Rows(loadVoteResultsQueryEnded(db, payload.bestBlock), env),
                 1, env))

\* cmdLoadVoteResults in a transaction: when newVoteResults fails for a
\* token, the rows created for the tokens before it are rolled back.
\* LoadVoteResultsCatchesUp fails for a cache built on it.
cmdLoadVoteResultsAtomic(db, payload, env) ==
    IF ~payload.ok THEN Result(db, EmptyPayload, ErrDecode)
    ELSE IF loadVoteResultsLoop(
                db, Rows(loadVoteResultsQuery(db, payload.bestBlock), env),
                1, env)[2] # ErrNil
    THEN Result(db, EmptyPayload,
                loadVoteResultsLoop(
                    db, Rows(loadVoteResultsQuery(db, payload.bestBlock), env),
                    1, env)[2])
    ELSE loadVoteResultsReturn(
             loadVoteResultsLoop(
                 db, Rows(loadVoteResultsQuery(db, payload.bestBlock), env),
                 1, env))

cmdLoadVoteResults(db, payload, env) ==
    IF ~payload.ok THEN Result(db, EmptyPayload, ErrDecode)
    ELSE loadVoteResultsReturn(
             loadVoteResultsLoop(
                 db, Rows(loadVoteResultsQuery(db, payload.bestBlock), env),
                 1, env))

(***************************************************************************)
(* tokeninventory.  Each list of the reply is given as the set of its      *)
(* tokens: the ORDER BY of the queries is not modelled.                    *)
(***************************************************************************)
RecordStatusPublic == "public"
RecordStatusArchived == "archived"

\* The query of cmdTokenInventory with "end_height < bestBlock": a vote that
\* ends at the best block is not looked at.  TokenInventoryNeedsResults
\* fails for a cache built on it.
tokenInventoryMissingQueryBefore(db, bestBlock) ==
    {sv.token : sv \in {r \in db.startVotes :
        /\ r.endHeight < bestBlock
        /\ ~\E vr \in db.voteResults : vr.token = r.token}}

\* SELECT start_votes.token FROM start_votes LEFT OUTER JOIN vote_results ...
\* WHERE start_votes.end_height <= bestBlock AND vote_results.token IS NULL
tokenInventoryMissingQuery(db, bestBlock) ==
    {sv.token : sv \in {r \in db.startVotes :
        /\ r.endHeight <= bestBlock
        /\ ~\E vr \in db.voteResults : vr.token = r.token}}

cmdTokenInventory(db, payload) ==
    IF ~payload.ok THEN Result(db, EmptyPayload, ErrDecode)
    ELSE IF tokenInventoryMissingQuery(db, payload.bestBlock) # {}
    THEN Result(db, EmptyPayload, ErrRecordNotFound)
    ELSE LET pre == {a.token : a \in {r \in db.records :
                        /\ ~\E b \in db.records :
                               b.token = r.token /\ r.version < b.version
                        /\ ~\E sv \in db.startVotes : sv.token = r.token
                        /\ r.status = RecordStatusPublic}}
             active == {sv.token : sv \in {r \in db.startVotes :
                           r.endHeight > payload.bestBlock}}
             approved == {vr.token : vr \in {r \in db.voteResults :
                             /\ \E sv \in db.startVotes : sv.token = r.token
                             /\ r.approved = TRUE}}
             rejected == {vr.token : vr \in {r \in db.voteResults :
                             /\ \E sv \in db.startVotes : sv.token = r.token
                             /\ r.approved = FALSE}}
             abandoned == {r.token : r \in {r \in db.records :
                              r.status = RecordStatusArchived}}
         IN  Result(db, [ok |-> TRUE, pre |-> pre, active |-> active,
                         approved |-> approved, rejected |-> rejected,
                         abandoned |-> abandoned], ErrNil)

(***************************************************************************)
(* votesummary and votedetails                                             *)
(***************************************************************************)
\* The lookup without its ORDER BY version DESC: it finds the first
\* version of the record.  AuthorizedIsOfLatestVersion fails for a cache
\* built on it.
latestRecordFirstVersion(db, token) ==
    {r \in db.records : /\ r.token = token
                        /\ \A o \in db.records :
                               o.token = token => r.version <= o.version}

\* SELECT ... FROM records WHERE token = ? ORDER BY version DESC LIMIT 1
latestRecord(db, token) ==
    {r \in db.records : /\ r.token = token
                        /\ \A o \in db.records :
                               o.token = token => o.version <= r.version}

\* cmdVoteSummary that counts the cast votes even when a VoteResults row
\* is stored.  SummaryResults fails for a cache built on it.
cmdVoteSummaryLive(db, payload) ==
    IF ~payload.ok THEN Result(db, EmptyPayload, ErrDecode)
    ELSE LET rs == latestRecord(db, payload.token)
         IN
         IF ~Found(rs) THEN Result(db, EmptyPayload, ErrRecordNotFound)
         ELSE
         LET key == payload.token \o FormatUint(First(rs).version, 10)
             avs == {r \in db.authorizeVotes : r.key = key}
             svs == {r \in db.startVotes : r.token = payload.token}
             av  == IF Found(avs) THEN First(avs) ELSE ZeroAuthorizeVote
             sv  == IF Found(avs) /\ Found(svs) THEN First(svs)
                    ELSE ZeroStartVote
             manual == [i \in 1..Len(sv.options) |->
                          [id |-> sv.options[i].id,
                           bits |-> sv.options[i].bits,
                           votes |-> Len(SelectSeq(db.castVotes, LAMBDA v :
                               v.tokenVoteBit = sv.options[i].token
                                   \o FormatUint(sv.options[i].bits, 16)))]]
             endHeight == IF sv.endHeight # 0
                          THEN FormatUint(sv.endHeight, 10) ELSE <<>>
         IN  Result(db,
                    [ok |-> TRUE,
                     authorized |-> (av.action = AuthVoteActionAuthorize),
                     endHeight |-> endHeight,
                     eligibleTicketCount |-> sv.eligibleTicketCount,
                     quorumPercentage |-> sv.quorumPercentage,
                     passPercentage |-> sv.passPercentage,
                     results |-> IF ~Found(avs) \/ ~Found(svs) THEN <<>>
                                 ELSE manual],
                    ErrNil)

\* cmdVoteSummary that looks the StartVote up whether or not the record
\* version has an AuthorizeVote.  SummaryEndHeight fails for a cache built
\* on it.
cmdVoteSummaryUnauthorized(db, payload) ==
    IF ~payload.ok THEN Result(db, EmptyPayload, ErrDecode)
    ELSE LET rs == latestRecord(db, payload.token)
         IN
         IF ~Found(rs) THEN Result(db, EmptyPayload, ErrRecordNotFound)
         ELSE
         LET key == payload.token \o FormatUint(First(rs).version, 10)
             avs == {r \in db.authorizeVotes : r.key = key}
             svs == {r \in db.startVotes : r.token = payload.token}
             vrs == {r \in db.voteResults : r.token = payload.token}
             av  == IF Found(avs) THEN First(avs) ELSE ZeroAuthorizeVote
             sv  == IF Found(svs) THEN First(svs) ELSE ZeroStartVote
             manual == [i \in 1..Len(sv.options) |->
                          [id |-> sv.options[i].id,
                           bits |-> sv.options[i].bits,
                           votes |-> Len(SelectSeq(db.castVotes, LAMBDA v :
                               v.tokenVoteBit = sv.options[i].token
                                   \o FormatUint(sv.options[i].bits, 16)))]]
             results == IF ~Found(avs) \/ ~Found(svs) THEN <<>>
                        ELSE IF Found(vrs)
                        THEN convertVoteOptionResultsToFonero(First(vrs).results)
                        ELSE manual
             endHeight == IF sv.endHeight # 0
                          THEN FormatUint(sv.endHeight, 10) ELSE <<>>
         IN  Result(db,
                    [ok |-> TRUE,
                     authorized |-> (av.action = AuthVoteActionAuthorize),
                     endHeight |-> endHeight,
                     eligibleTicketCount |-> sv.eligibleTicketCount,
                     quorumPercentage |-> sv.quorumPercentage,
                     passPercentage |-> sv.passPercentage,
                     results |-> results],
                    ErrNil)

cmdVoteSummary(db, payload) ==
    IF ~payload.ok THEN Result(db, EmptyPayload, ErrDecode)
    ELSE LET rs == latestRecord(db, payload.token)
         IN
         IF ~Found(rs) THEN Result(db, EmptyPayload, ErrRecordNotFound)
         ELSE
         LET key == payload.token \o FormatUint(First(rs).version, 10)
             avs == {r \in db.authorizeVotes : r.key = key}
             svs == {r \in db.startVotes : r.token = payload.token}
             vrs == {r \in db.voteResults : r.token = payload.token}
             av  == IF Found(avs) THEN First(avs) ELSE ZeroAuthorizeVote
             \* goto sendReply leaves sv zero when av was not found
             sv  == IF Found(avs) /\ Found(svs) THEN First(svs)
                    ELSE ZeroStartVote
             manual == [i \in 1..Len(sv.options) |->
                          [id |-> sv.options[i].id,
                           bits |-> sv.options[i].bits,
                           votes |-> Len(SelectSeq(db.castVotes, LAMBDA v :
                               v.tokenVoteBit = sv.options[i].token
                                   \o FormatUint(sv.options[i].bits, 16)))]]
             results == IF ~Found(avs) \/ ~Found(svs) THEN <<>>
                        ELSE IF Found(vrs)
                        THEN convertVoteOptionResultsToFonero(First(vrs).results)
                        ELSE manual
             endHeight == IF sv.endHeight # 0
                          THEN FormatUint(sv.endHeight, 10) ELSE <<>>
         IN  Result(db,
                    [ok |-> TRUE,
                     authorized |-> (av.action = AuthVoteActionAuthorize),
                     endHeight |-> endHeight,
                     eligibleTicketCount |-> sv.eligibleTicketCount,
                     quorumPercentage |-> sv.quorumPercentage,
                     passPercentage |-> sv.passPercentage,
                     results |-> results],
                    ErrNil)

cmdVoteDetails(db, payload) ==
    IF ~payload.ok THEN Result(db, EmptyPayload, ErrNil)  \* return "", nil
    ELSE LET rs == latestRecord(db, payload.token)
         IN
         IF ~Found(rs) THEN Result(db, EmptyPayload, ErrRecordNotFound)
         ELSE
         LET key == payload.token \o FormatUint(First(rs).version, 10)
             avs == {r \in db.authorizeVotes : r.key = key}
             svs == {r \in db.startVotes : r.token = payload.token}
             av  == IF Found(avs) THEN First(avs) ELSE ZeroAuthorizeVote
             sv  == IF Found(svs) THEN First(svs) ELSE ZeroStartVote
             dsv == convertStartVoteToFonero(sv)
         IN  Result(db,
                    [ok |-> TRUE,
                     authorizeVote |-> convertAuthorizeVoteToFonero(av),
                     startVote |-> dsv.startVote,
                     startVoteReply |-> dsv.startVoteReply],
                    ErrNil)

(***************************************************************************)
(* Exec                                                                    *)
(***************************************************************************)
\* Exec with every command name taken as bestblock is: no error, no reply,
\* nothing changed.  UnknownCommandRejected fails for a cache built on it.
ExecAcceptsAll(db, cmd, cmdPayload, replyPayload, env) ==
    Result(db, EmptyPayload, ErrNil)

Exec(db, cmd, cmdPayload, replyPayload, env) ==
    CASE cmd = CmdAuthorizeVote ->
             cmdAuthorizeVote(db, cmdPayload, replyPayload, env)
      [] cmd = CmdStartVote -> cmdStartVote(db, cmdPayload, replyPayload, env)
      [] cmd = CmdVoteDetails -> cmdVoteDetails(db, cmdPayload)
      [] cmd = CmdBallot -> cmdNewBallot(db, cmdPayload, replyPayload, env)
      [] cmd = CmdBestBlock -> Result(db, EmptyPayload, ErrNil)
      [] cmd = CmdNewComment -> cmdNewComment(db, cmdPayload, replyPayload, env)
      [] cmd = CmdLikeComment ->
             cmdLikeComment(db, cmdPayload, replyPayload, env)
      [] cmd = CmdCensorComment ->
             cmdCensorComment(db, cmdPayload, replyPayload, env)
      [] cmd = CmdGetComment -> cmdGetComment(db, cmdPayload)
      [] cmd = CmdGetComments -> cmdGetComments(db, cmdPayload)
      [] cmd = CmdProposalVotes -> cmdProposalVotes(db, cmdPayload)
      [] cmd = CmdCommentLikes -> cmdCommentLikes(db, cmdPayload)
      [] cmd = CmdProposalCommentsLikes ->
             cmdProposalCommentsLikes(db, cmdPayload)
      [] cmd = CmdInventory -> cmdInventory(db)
      [] cmd = CmdLoadVoteResults -> cmdLoadVoteResults(db, cmdPayload, env)
      [] cmd = CmdTokenInventory -> cmdTokenInventory(db, cmdPayload)
      [] cmd = CmdVoteSummary -> cmdVoteSummary(db, cmdPayload)
      [] OTHER -> Result(db, EmptyPayload, ErrInvalidPluginCmd)

\* The call made and what it returned.
Returned(impl, cmd, cmdPayload, replyPayload, env, r) ==
    [impl |-> impl, cmd |-> cmd, cmdPayload |-> cmdPayload,
     replyPayload |-> replyPayload, env |-> env, err |-> r.err,
     reply |-> r.reply]

SetDB(db) ==
    /\ records' = db.records
    /\ comments' = db.comments
    /\ likes' = db.likes
    /\ authorizeVotes' = db.authorizeVotes
    /\ startVotes' = db.startVotes
    /\ castVotes' = db.castVotes
    /\ voteResults' = db.voteResults
    /\ tables' = db.tables
    /\ versions' = db.versions

ExecReturn(cmd, cmdPayload, replyPayload, env, r) ==
    /\ SetDB(r.db)
    /\ last' = Returned("cockroachdb", cmd, cmdPayload, replyPayload, env, r)
    /\ UNCHANGED <<tcVars, tpVars, ccVars>>

\* One call of Exec on the cockroachdb cache.
ExecStep(cmd, cmdPayload, replyPayload, env) ==
    ExecReturn(cmd, cmdPayload, replyPayload, env,
               Exec(DB, cmd, cmdPayload, replyPayload, env))

(***************************************************************************)
(* Build, Setup and CheckVersion.  A handler counts the writes it asks of  *)
(* the database: n are made when an operator is entered, and the write     *)
(* numbered env.fault fails.  An operator that writes returns <<database,  *)
(* error, writes made>>.                                                   *)
(***************************************************************************)
foneroVersion == "1.1"
foneroID == "fonero"

ErrNoVersionRecord == "ErrNoVersionRecord"
ErrWrongVersion == "ErrWrongVersion"
ErrVersionsTable == "versions table not found"
ErrReplyNotFound == "AuthorizeVoteReply not found"
ErrPanic == "panic"

tableVersions == "versions"
\* The tables of the plugin, in the order createTables creates them.
PluginTables ==
    <<"comments", "comment_likes", "cast_votes", "authorize_votes",
      "vote_options", "start_votes", "vote_option_results", "vote_results">>

\* Rows with the key of the plugin in the versions table.
VersionRows(rows) == {v \in rows : v.id = foneroID}

\* DropTableIfExists of the plugin tables, then Delete of the version
\* record, on the transaction tx.
\* dropTables that deletes the version record and drops no table.
\* BuildTwiceSame fails for a cache built on it.
dropTablesVersionOnly(tx, env, n) ==
    IF env.fault \in {n + 1, n + 2} THEN <<tx, ErrStorage, env.fault>>
    ELSE <<[tx EXCEPT !.versions = @ \ VersionRows(@)], ErrNil, n + 2>>

\* dropTables with vote_results left out of the tables it drops.
\* BuildLeavesInventoryOnly fails for a cache built on it.
dropTablesKeepsVoteResults(tx, env, n) ==
    IF env.fault = n + 1 THEN <<tx, ErrStorage, n + 1>>
    ELSE IF env.fault = n + 2
    THEN <<[tx EXCEPT !.tables = @ \ (SeqToSet(PluginTables)
                                          \ {"vote_results"}),
                      !.comments = {}, !.likes = <<>>, !.castVotes = <<>>,
                      !.authorizeVotes = {}, !.startVotes = {}],
           ErrStorage, n + 2>>
    ELSE <<[tx EXCEPT !.tables = @ \ (SeqToSet(PluginTables)
                                          \ {"vote_results"}),
                      !.comments = {}, !.likes = <<>>, !.castVotes = <<>>,
                      !.authorizeVotes = {}, !.startVotes = {},
                      !.versions = @ \ VersionRows(@)],
           ErrNil, n + 2>>

dropTables(tx, env, n) ==
    IF env.fault = n + 1 THEN <<tx, ErrStorage, n + 1>>
    ELSE IF env.fault = n + 2
    THEN <<[tx EXCEPT !.tables = @ \ SeqToSet(PluginTables),
                      !.comments = {}, !.likes = <<>>, !.castVotes = <<>>,
                      !.authorizeVotes = {}, !.startVotes = {},
                      !.voteResults = {}],
           ErrStorage, n + 2>>
    ELSE <<[tx EXCEPT !.tables = @ \ SeqToSet(PluginTables),
                      !.comments = {}, !.likes = <<>>, !.castVotes = <<>>,
                      !.authorizeVotes = {}, !.startVotes = {},
                      !.voteResults = {},
                      !.versions = @ \ VersionRows(@)],
           ErrNil, n + 2>>

\* The end of createTables: the version record is looked up and inserted
\* when there is none.
createVersion(tx, env, n, now) ==
    IF tableVersions \notin tx.tables THEN <<tx, ErrVersionsTable, n>>
    ELSE IF Found(VersionRows(tx.versions)) THEN <<tx, ErrNil, n>>
    ELSE IF env.fault = n + 1 THEN <<tx, ErrStorage, n + 1>>
    ELSE <<[tx EXCEPT !.versions =
                @ \cup {[id |-> foneroID, version |-> foneroVersion,
                         timestamp |-> now]}],
           ErrNil, n + 1>>

RECURSIVE createTablesFrom(_, _, _, _, _)
\* createTables from the i-th table on: CreateTable of each table that
\* HasTable does not find.
createTablesFrom(tx, i, env, n, now) ==
    IF i > Len(PluginTables) THEN createVersion(tx, env, n, now)
    ELSE IF PluginTables[i] \in tx.tables
    THEN createTablesFrom(tx, i + 1, env, n, now)
    ELSE IF env.fault = n + 1 THEN <<tx, ErrStorage, n + 1>>
    ELSE createTablesFrom([tx EXCEPT !.tables = @ \cup {PluginTables[i]}],
                          i + 1, env, n + 1, now)

createTables(tx, env, n, now) == createTablesFrom(tx, 1, env, n, now)

\* The end of a transaction begun on db that left <<tx, error, writes>>:
\* Rollback on an error, and Commit, which is one more write.
Committed(db, t, env) ==
    IF t[2] # ErrNil THEN <<db, t[2], t[3]>>
    ELSE IF env.fault = t[3] + 1 THEN <<db, ErrStorage, t[3] + 1>>
    ELSE <<t[1], ErrNil, t[3] + 1>>

\* Setup that drops the plugin tables before it creates them, as build
\* does.  SetupKeepsRows fails for a cache built on it.
SetupDropping(db, env, now) ==
    Committed(db, createTables(dropTables(db, Env(0, <<>>), 0)[1],
                               env, 0, now), env)

Setup(db, env, now) == Committed(db, createTables(db, env, 0, now), env)

\* CheckVersion that is content with any version record.
\* CheckVersionCompares fails for a cache built on it.
CheckVersionAnyRecord(db) ==
    IF tableVersions \notin db.tables THEN ErrVersionsTable
    ELSE IF ~Found(VersionRows(db.versions)) THEN ErrNoVersionRecord
    ELSE ErrNil

CheckVersion(db) ==
    IF tableVersions \notin db.tables THEN ErrVersionsTable
    ELSE IF ~Found(VersionRows(db.versions)) THEN ErrNoVersionRecord
    ELSE IF First(VersionRows(db.versions)).version # foneroVersion
    THEN ErrWrongVersion
    ELSE ErrNil

\* The AuthorizeVoteReply that build finds for a receipt: its map keeps the
\* last reply of the inventory with the receipt.
RepliesFor(replies, receipt) ==
    SelectSeq(replies, LAMBDA r : r.receipt = receipt)

\* What a step of build that left <<database, error, writes>> leaves when
\* the step fails, for build returns at once.
buildFailed(r) == r[2] # ErrNil

RECURSIVE buildCastVotes(_, _, _, _, _)
buildCastVotesNext(r, ir, i, env, n) ==
    IF buildFailed(r) THEN <<r[1], r[2], n + 1>>
    ELSE buildCastVotes(r[1], ir, i + 1, env, n + 1)

\* for _, v := range ir.CastVotes, from the i-th on; the end of build.
buildCastVotes(db, ir, i, env, n) ==
    IF i > Len(ir.castVotes) THEN <<db, ErrNil, n>>
    ELSE buildCastVotesNext(
             newCastVote(db, convertCastVoteFromFonero(ir.castVotes[i]),
                         env.fault = n + 1),
             ir, i, env, n)

RECURSIVE buildStartVotes(_, _, _, _, _)
buildStartVotesNext(r, ir, i, env, n) ==
    IF buildFailed(r) THEN <<r[1], r[2], n + 1>>
    ELSE buildStartVotes(r[1], ir, i + 1, env, n + 1)

\* for _, v := range ir.StartVoteTuples, from the i-th on.
buildStartVotes(db, ir, i, env, n) ==
    IF i > Len(ir.startVoteTuples) THEN buildCastVotes(db, ir, 1, env, n)
    ELSE IF ParseUint(ir.startVoteTuples[i].startVoteReply.endHeight) < 0
    THEN <<db, ErrParse, n>>
    ELSE buildStartVotesNext(
             newStartVote(db,
                 convertStartVoteFromFonero(
                     ir.startVoteTuples[i].startVote,
                     ir.startVoteTuples[i].startVoteReply,
                     ParseUint(ir.startVoteTuples[i].startVoteReply.endHeight)),
                 Env(env.fault - n, env.order)),
             ir, i, env, n)

RECURSIVE buildAuthorizeVotes(_, _, _, _, _)
buildAuthorizeVotesNext(r, ir, i, env, n) ==
    IF buildFailed(r)
    THEN <<r[1], r[2], IF env.fault = n + 1 THEN n + 1 ELSE n + 2>>
    ELSE buildAuthorizeVotes(r[1], ir, i + 1, env, n + 2)

\* The i-th AuthorizeVote with the reply found for it.
buildAuthorizeVote(db, v, r, ir, i, env, n) ==
    IF ParseUint(r.recordVersion) < 0 THEN <<db, ErrParse, n>>
    ELSE buildAuthorizeVotesNext(
             newAuthorizeVote(db,
                 convertAuthorizeVoteFromFonero(v, r,
                                                ParseUint(r.recordVersion)),
                 Env(env.fault - n, env.order)),
             ir, i, env, n)

\* for _, v := range ir.AuthorizeVotes, from the i-th on: newAuthorizeVote
\* is called on the database, not in a transaction.
buildAuthorizeVotes(db, ir, i, env, n) ==
    IF i > Len(ir.authorizeVotes) THEN buildStartVotes(db, ir, 1, env, n)
    ELSE IF RepliesFor(ir.authorizeVoteReplies,
                       ir.authorizeVotes[i].receipt) = <<>>
    THEN <<db, ErrReplyNotFound, n>>
    ELSE buildAuthorizeVote(
             db, ir.authorizeVotes[i],
             RepliesFor(ir.authorizeVoteReplies, ir.authorizeVotes[i].receipt)
                 [Len(RepliesFor(ir.authorizeVoteReplies,
                                 ir.authorizeVotes[i].receipt))],
             ir, i, env, n)

RECURSIVE buildLikeComments(_, _, _, _, _)
buildLikeCommentsNext(r, ir, i, env, n) ==
    IF buildFailed(r) THEN <<r[1], r[2], n + 1>>
    ELSE buildLikeComments(r[1], ir, i + 1, env, n + 1)

\* for _, v := range ir.LikeComments, from the i-th on.
buildLikeComments(db, ir, i, env, n) ==
    IF i > Len(ir.likeComments) THEN buildAuthorizeVotes(db, ir, 1, env, n)
    ELSE buildLikeCommentsNext(
             newLikeComment(db, convertLikeCommentFromFonero(ir.likeComments[i]),
                            env.fault = n + 1),
             ir, i, env, n)

RECURSIVE buildComments(_, _, _, _, _)
buildCommentsNext(r, ir, i, env, n) ==
    IF buildFailed(r) THEN <<r[1], r[2], n + 1>>
    ELSE buildComments(r[1], ir, i + 1, env, n + 1)

\* for _, v := range ir.Comments, from the i-th on.
buildComments(db, ir, i, env, n) ==
    IF i > Len(ir.comments) THEN buildLikeComments(db, ir, 1, env, n)
    ELSE buildCommentsNext(
             newComment(db, convertCommentFromFonero(ir.comments[i]),
                        env.fault = n + 1),
             ir, i, env, n)

\* build after its first transaction, which left t: createTables in a
\* second transaction, then the inserts.
buildCreated(t, ir, env) ==
    IF buildFailed(t) THEN t ELSE buildComments(t[1], ir, 1, env, t[3])

buildDropped(t, ir, env, now) ==
    IF buildFailed(t) THEN t
    ELSE buildCreated(Committed(t[1], createTables(t[1], env, t[3], now), env),
                      ir, env)

\* build: dropTables in a transaction, then the rest.
build(db, ir, env, now) ==
    buildDropped(Committed(db, dropTables(db, env, 0), env), ir, env, now)

\* What Build returns when build left r: on an error the version record is
\* deleted, and Build panics when that delete fails.
\* Build returning the error of build without deleting the version record.
\* BuildFailureDropsVersion fails for a cache built on it.
BuildReturnKeepsVersion(r, deleteFailed) ==
    Result(r[1], EmptyPayload, r[2])

BuildReturn(r, deleteFailed) ==
    IF ~buildFailed(r) THEN Result(r[1], EmptyPayload, ErrNil)
    ELSE IF deleteFailed THEN Result(r[1], EmptyPayload, ErrPanic)
    ELSE Result([r[1] EXCEPT !.versions = @ \ VersionRows(@)],
                EmptyPayload, r[2])

Build(db, payload, env, now, deleteFailed) ==
    IF ~payload.ok THEN Result(db, EmptyPayload, ErrDecode)
    ELSE BuildReturn(build(db, payload, env, now), deleteFailed)

\* One call of Build, of Setup or of CheckVersion on the cockroachdb cache.
BuildStep(payload, env, now, deleteFailed) ==
    ExecReturn("Build", payload, EmptyPayload, env,
               Build(DB, payload, env, now, deleteFailed))

SetupReturn(t) == Result(t[1], EmptyPayload, t[2])

SetupStep(env, now) ==
    ExecReturn("Setup", EmptyPayload, EmptyPayload, env,
               SetupReturn(Setup(DB, env, now)))

CheckVersionStep ==
    ExecReturn("CheckVersion", EmptyPayload, EmptyPayload, Env(0, <<>>),
               Result(DB, EmptyPayload, CheckVersion(DB)))

(***************************************************************************)
(* The in-memory testcache.  A Go map is a function; reading a key that    *)
(* is absent yields the zero value.  Every handler runs with the cache's   *)
(* lock held from its first access of a map to its return, so a call is    *)
(* one step.                                                               *)
(***************************************************************************)
EmptyMap == <<>>

MapPut(m, k, v) == [x \in DOMAIN m \cup {k} |-> IF x = k THEN v ELSE m[x]]

MapGet(m, k, zero) == IF k \in DOMAIN m THEN m[k] ELSE zero

TC == [records |-> tcRecords, authorizeVotes |-> tcAuthorizeVotes,
       startVotes |-> tcStartVotes, startVoteReplies |-> tcStartVoteReplies,
       comments |-> tcComments]

ZeroPluginAuthorizeVote ==
    [action |-> "", token |-> <<>>, receipt |-> "", timestamp |-> 0]
ZeroPluginStartVote ==
    [ok |-> TRUE, token |-> <<>>, mask |-> 0, duration |-> 0,
     quorumPercentage |-> 0, passPercentage |-> 0, options |-> <<>>]
ZeroPluginStartVoteReply ==
    [ok |-> TRUE, endHeight |-> <<>>, eligibleTickets |-> <<>>]
ZeroRecord ==
    [token |-> <<>>, version |-> <<>>, status |-> "", timestamp |-> 0,
     metadata |-> "", files |-> ""]

\* strconv.Atoi on a version: the value, or -1 for a syntax error.
Atoi(str) == ParseUint(str)

\* testcache.NewRecord
tcNewRecord(c, r) ==
    LET inner == MapGet(c.records, r.token, EmptyMap)
    IN  [c EXCEPT !.records = MapPut(@, r.token, MapPut(inner, r.version, r))]

\* testcache.record that returns the record of the lowest version.
\* RecordIsLatest fails for a cache built on it.
tcRecordOldest(c, token) ==
    IF token \notin DOMAIN c.records THEN <<ZeroRecord, ErrRecordNotFound>>
    ELSE LET recs == c.records[token]
         IN  <<recs[CHOOSE v \in DOMAIN recs :
                       \A w \in DOMAIN recs : Atoi(v) <= Atoi(w)], ErrNil>>

\* testcache.record and Record: <<record, error>>, the record of the
\* highest version.
tcRecord(c, token) ==
    IF token \notin DOMAIN c.records THEN <<ZeroRecord, ErrRecordNotFound>>
    ELSE LET recs == c.records[token]
         IN  IF \E v \in DOMAIN recs : Atoi(v) < 0
             THEN <<ZeroRecord, ErrParse>>
             ELSE LET latest ==
                          IF \E v \in DOMAIN recs : Atoi(v) > 0
                          THEN CHOOSE n \in {Atoi(v) : v \in DOMAIN recs} :
                                   \A v \in DOMAIN recs : Atoi(v) <= n
                          ELSE 0
                  IN  IF latest = 0 THEN <<ZeroRecord, ErrRecordNotFound>>
                      ELSE <<MapGet(recs, FormatUint(latest, 10), ZeroRecord),
                             ErrNil>>

\* testcache.recordVersion and RecordVersion: <<record, error>>
tcRecordVersion(c, token, version) ==
    IF token \notin DOMAIN c.records THEN <<ZeroRecord, ErrRecordNotFound>>
    ELSE IF version \notin DOMAIN c.records[token]
    THEN <<ZeroRecord, ErrRecordNotFound>>
    ELSE <<c.records[token][version], ErrNil>>

\* UpdateRecordStatus that sets the status of every version of the record.
\* UpdateRecordStatusFrame fails for a cache built on it.
tcUpdateRecordStatusOfAll(c, token, version, status, timestamp, metadata) ==
    IF tcRecordVersion(c, token, version)[2] # ErrNil
    THEN Result(c, EmptyPayload, tcRecordVersion(c, token, version)[2])
    ELSE Result([c EXCEPT !.records[token] =
                    [v \in DOMAIN @ |->
                        [@[v] EXCEPT !.status = status,
                                     !.timestamp = timestamp,
                                     !.metadata = metadata]]],
                EmptyPayload, ErrNil)

\* testcache.UpdateRecordStatus
tcUpdateRecordStatus(c, token, version, status, timestamp, metadata) ==
    IF tcRecordVersion(c, token, version)[2] # ErrNil
    THEN Result(c, EmptyPayload, tcRecordVersion(c, token, version)[2])
    ELSE Result([c EXCEPT !.records[token][version] =
                    [@ EXCEPT !.status = status, !.timestamp = timestamp,
                              !.metadata = metadata]],
                EmptyPayload, ErrNil)

tcGetComments(c, payload) ==
    IF ~payload.ok THEN Result(c, EmptyPayload, ErrDecode)
    ELSE Result(c, [ok |-> TRUE,
                    comments |-> MapGet(c.comments, payload.token, <<>>)],
                ErrNil)

tcAuthorizeVote(c, cmdPayload, replyPayload) ==
    IF ~cmdPayload.ok THEN Result(c, EmptyPayload, ErrDecode)
    ELSE IF ~replyPayload.ok THEN Result(c, EmptyPayload, ErrDecode)
    ELSE LET av == [action |-> cmdPayload.action, token |-> cmdPayload.token,
                    receipt |-> replyPayload.receipt,
                    timestamp |-> replyPayload.timestamp]
             inner == MapGet(c.authorizeVotes, av.token, EmptyMap)
         IN  Result([c EXCEPT !.authorizeVotes =
                        MapPut(@, av.token,
                               MapPut(inner, replyPayload.recordVersion, av))],
                    replyPayload, ErrNil)

tcStartVote(c, cmdPayload, replyPayload) ==
    IF ~cmdPayload.ok THEN Result(c, EmptyPayload, ErrDecode)
    ELSE IF ~replyPayload.ok THEN Result(c, EmptyPayload, ErrDecode)
    ELSE Result([c EXCEPT
                    !.startVotes = MapPut(@, cmdPayload.token, cmdPayload),
                    !.startVoteReplies =
                        MapPut(@, cmdPayload.token, replyPayload)],
                replyPayload, ErrNil)

tcVoteDetails(c, payload) ==
    IF ~payload.ok THEN Result(c, EmptyPayload, ErrDecode)
    ELSE LET r == tcRecord(c, payload.token)
         IN  IF r[2] # ErrNil THEN Result(c, EmptyPayload, r[2])
             ELSE LET inner == MapGet(c.authorizeVotes, payload.token, EmptyMap)
                      c1 == [c EXCEPT !.authorizeVotes =
                                MapPut(@, payload.token, inner)]
                  IN  Result(c1,
                             [ok |-> TRUE,
                              authorizeVote |->
                                  MapGet(inner, r[1].version,
                                         ZeroPluginAuthorizeVote),
                              startVote |->
                                  MapGet(c.startVotes, payload.token,
                                         ZeroPluginStartVote),
                              startVoteReply |->
                                  MapGet(c.startVoteReplies, payload.token,
                                         ZeroPluginStartVoteReply)],
                             ErrNil)

\* testcache.foneroExec
foneroExec(c, cmd, cmdPayload, replyPayload) ==
    CASE cmd = CmdGetComments -> tcGetComments(c, cmdPayload)
      [] cmd = CmdAuthorizeVote -> tcAuthorizeVote(c, cmdPayload, replyPayload)
      [] cmd = CmdStartVote -> tcStartVote(c, cmdPayload, replyPayload)
      [] cmd = CmdVoteDetails -> tcVoteDetails(c, cmdPayload)
      [] OTHER -> Result(c, EmptyPayload, ErrInvalidPluginCmd)

SetTC(c) ==
    /\ tcRecords' = c.records
    /\ tcAuthorizeVotes' = c.authorizeVotes
    /\ tcStartVotes' = c.startVotes
    /\ tcStartVoteReplies' = c.startVoteReplies
    /\ tcComments' = c.comments

TcExecReturn(cmd, cmdPayload, replyPayload, r) ==
    /\ SetTC(r.db)
    /\ last' = Returned("testcache", cmd, cmdPayload, replyPayload,
                        Env(0, <<>>), r)
    /\ UNCHANGED <<dbVars, tpVars, ccVars>>

\* One call of PluginExec on the testcache.
TcExecStep(cmd, cmdPayload, replyPayload) ==
    TcExecReturn(cmd, cmdPayload, replyPayload,
                 foneroExec(TC, cmd, cmdPayload, replyPayload))

\* One call of NewRecord on the testcache.
TcNewRecordStep(r) ==
    /\ SetTC(tcNewRecord(TC, r))
    /\ last' = [impl |-> "testcache", cmd |-> "NewRecord",
                cmdPayload |-> r, replyPayload |-> EmptyPayload,
                env |-> Env(0, <<>>), err |-> ErrNil,
                reply |-> EmptyPayload]
    /\ UNCHANGED <<dbVars, tpVars, ccVars>>

\* One call of Record, RecordVersion or UpdateRecordStatus on the
\* testcache: what it was called with and what it returned.
TcCallReturn(cmd, args, c, reply, err) ==
    /\ SetTC(c)
    /\ last' = [impl |-> "testcache", cmd |-> cmd, cmdPayload |-> args,
                replyPayload |-> EmptyPayload, env |-> Env(0, <<>>),
                err |-> err, reply |-> reply]
    /\ UNCHANGED <<dbVars, tpVars, ccVars>>

TcRecordStep(token) ==
    TcCallReturn("Record", [token |-> token], TC,
                 tcRecord(TC, token)[1], tcRecord(TC, token)[2])

TcRecordVersionStep(token, version) ==
    TcCallReturn("RecordVersion", [token |-> token, version |-> version], TC,
                 tcRecordVersion(TC, token, version)[1],
                 tcRecordVersion(TC, token, version)[2])

TcUpdateRecordStatusReturn(args, r) ==
    TcCallReturn("UpdateRecordStatus", args, r.db, r.reply, r.err)

TcUpdateRecordStatusStep(token, version, status, timestamp, metadata) ==
    TcUpdateRecordStatusReturn(
        [token |-> token, version |-> version, status |-> status,
         timestamp |-> timestamp, metadata |-> metadata],
        tcUpdateRecordStatus(TC, token, version, status, timestamp, metadata))

(***************************************************************************)
(* TestPoliteiad, the politeiad server of the tests: its startvote handler *)
(* computes the reply that the caches are then given.                      *)
(***************************************************************************)
bestBlock == 1000

TP == [startVotes |-> tpStartVotes, startVoteReplies |-> tpStartVoteReplies]

\* TestPoliteiad.startVote
tpStartVote(p, payload) ==
    IF ~payload.ok THEN Result(p, EmptyPayload, ErrDecode)
    ELSE LET svr == [ok |-> TRUE,
                     endHeight |-> FormatUint(bestBlock + payload.duration, 10),
                     eligibleTickets |-> <<>>]
         IN  Result([p EXCEPT
                        !.startVotes = MapPut(@, payload.token, payload),
                        !.startVoteReplies = MapPut(@, payload.token, svr)],
                    svr, ErrNil)

\* TestPoliteiad.foneroExec; authorizevote needs the records of the server
\* and is not modelled.
tpFoneroExec(p, cmd, payload) ==
    CASE cmd = CmdStartVote -> tpStartVote(p, payload)
      [] OTHER -> Result(p, EmptyPayload, ErrInvalidPluginCmd)

TpExecReturn(cmd, payload, r) ==
    /\ tpStartVotes' = r.db.startVotes
    /\ tpStartVoteReplies' = r.db.startVoteReplies
    /\ last' = Returned("testpoliteiad", cmd, payload, EmptyPayload,
                        Env(0, <<>>), r)
    /\ UNCHANGED <<dbVars, tcVars, ccVars>>

\* One plugin command sent to TestPoliteiad.
TpExecStep(cmd, payload) ==
    TpExecReturn(cmd, payload, tpFoneroExec(TP, cmd, payload))

(***************************************************************************)
(* The state after construction and the first Setup: empty tables, the     *)
(* version record of the plugin, and empty maps.                           *)
(***************************************************************************)
Init ==
    /\ records = {} /\ comments = {} /\ likes = <<>> /\ authorizeVotes = {}
    /\ startVotes = {} /\ castVotes = <<>> /\ voteResults = {}
    /\ tables = SeqToSet(PluginTables) \cup {tableVersions}
    /\ versions = {[id |-> foneroID, version |-> foneroVersion,
                    timestamp |-> 0]}
    /\ tcRecords = EmptyMap /\ tcAuthorizeVotes = EmptyMap
    /\ tcStartVotes = EmptyMap /\ tcStartVoteReplies = EmptyMap
    /\ tcComments = EmptyMap
    /\ tpStartVotes = EmptyMap /\ tpStartVoteReplies = EmptyMap
    /\ mutex = Unlocked /\ running = NoCalls
    /\ last = NoCall

\* A payload that decodes.
Payload(fields) == [ok |-> TRUE] @@ fields

(***************************************************************************)
(* authorizevote on both caches: one token, record versions 1 and 2.       *)
(***************************************************************************)
TokenA == <<"a">>
TokenB == <<"b">>

AuthorizeVoteVersions == {<<"1">>, <<"2">>}

\* What politeiad signed: the action of the command with the receipt and
\* the timestamp of the reply.
AuthorizeVoteSigned ==
    {[action |-> AuthVoteActionAuthorize, receipt |-> "r1", timestamp |-> 1],
     [action |-> AuthVoteActionRevoke, receipt |-> "r2", timestamp |-> 2],
     [action |-> AuthVoteActionAuthorize, receipt |-> "r3", timestamp |-> 3]}

AuthorizeVoteCmd(token, s) ==
    Payload([token |-> token, action |-> s.action])

AuthorizeVoteReply(s, recordVersion) ==
    Payload([action |-> s.action, recordVersion |-> recordVersion,
             receipt |-> s.receipt, timestamp |-> s.timestamp])

Call(cp, rp, env) == [cp |-> cp, rp |-> rp, env |-> env]

\* The calls of authorizevote: every signed vote on every version with
\* every write failing in turn, a record version that is no number, and a
\* payload of either kind that does not decode.
AuthorizeVoteCalls ==
    {Call(AuthorizeVoteCmd(TokenA, s), AuthorizeVoteReply(s, v), Env(f, <<>>)) :
        s \in AuthorizeVoteSigned, v \in AuthorizeVoteVersions, f \in 0..3}
    \cup {Call(AuthorizeVoteCmd(TokenA, s), AuthorizeVoteReply(s, <<"x">>),
               Env(0, <<>>)) : s \in AuthorizeVoteSigned}
    \cup {Call(Malformed, AuthorizeVoteReply(s, <<"1">>), Env(0, <<>>)) :
             s \in AuthorizeVoteSigned}
    \cup {Call(AuthorizeVoteCmd(TokenA, s), Malformed, Env(0, <<>>)) :
             s \in AuthorizeVoteSigned}

AuthorizeVote ==
    \E c \in AuthorizeVoteCalls : ExecStep(CmdAuthorizeVote, c.cp, c.rp, c.env)

TcAuthorizeVote ==
    \E c \in {d \in AuthorizeVoteCalls : d.env.fault = 0} :
        TcExecStep(CmdAuthorizeVote, c.cp, c.rp)

NextAuth == AuthorizeVote \/ TcAuthorizeVote

SpecAuth == Init /\ [][NextAuth]_vars

\* C1: in each cache at most one AuthorizeVote is held for a (token,
\* version); an authorizevote command whose payloads decode, whose record
\* version is a number and whose writes the database carries out succeeds;
\* and after every authorizevote command that succeeded the cache holds
\* exactly one AuthorizeVote for the command's (token, version), with the
\* action, the receipt and the timestamp of that command.
AuthorizeVoteReplaces ==
    /\ \A r1, r2 \in authorizeVotes :
           (r1.token = r2.token /\ r1.version = r2.version) => r1 = r2
    /\ ( /\ last.cmd = CmdAuthorizeVote
         /\ last.cmdPayload.ok /\ last.replyPayload.ok
         /\ last.env.fault = 0
         /\ \/ last.impl = "testcache"
            \/ ParseUint(last.replyPayload.recordVersion) >= 0 )
       => last.err = ErrNil
    /\ (last.cmd = CmdAuthorizeVote /\ last.err = ErrNil
            /\ last.impl = "cockroachdb")
       => {r \in authorizeVotes :
              /\ r.token = last.cmdPayload.token
              /\ r.version = ParseUint(last.replyPayload.recordVersion)}
          = {[key |-> last.cmdPayload.token \o last.replyPayload.recordVersion,
              token |-> last.cmdPayload.token,
              version |-> ParseUint(last.replyPayload.recordVersion),
              action |-> last.cmdPayload.action,
              receipt |-> last.replyPayload.receipt,
              timestamp |-> last.replyPayload.timestamp]}
    /\ (last.cmd = CmdAuthorizeVote /\ last.err = ErrNil
            /\ last.impl = "testcache")
       => /\ last.cmdPayload.token \in DOMAIN tcAuthorizeVotes
          /\ last.replyPayload.recordVersion
                 \in DOMAIN tcAuthorizeVotes[last.cmdPayload.token]
          /\ tcAuthorizeVotes[last.cmdPayload.token]
                             [last.replyPayload.recordVersion]
             = [action |-> last.cmdPayload.action,
                token |-> last.cmdPayload.token,
                receipt |-> last.replyPayload.receipt,
                timestamp |-> last.replyPayload.timestamp]

\* A revoke that succeeded on the cockroachdb cache while both versions of
\* the token hold a vote, the other version an authorize of a later time.
AuthorizeVoteReplaced ==
    /\ last.cmd = CmdAuthorizeVote /\ last.err = ErrNil
    /\ last.impl = "cockroachdb"
    /\ last.cmdPayload.action = AuthVoteActionRevoke
    /\ Cardinality(authorizeVotes) = 2
    /\ \E r \in authorizeVotes :
           r.action = AuthVoteActionAuthorize
               /\ r.timestamp > last.replyPayload.timestamp

(***************************************************************************)
(* The calls of the vote commands, over the tokens, heights, thresholds    *)
(* and ballots that a specification names.                                 *)
(***************************************************************************)
VoteOptions == <<[id |-> voteOptionIDApproved, bits |-> 1],
                 [id |-> "no", bits |-> 2]>>
VoteBitYes == <<"1">>
VoteBitNo == <<"2">>

\* The thresholds and the eligible tickets of a vote.
VoteConfig(quorum, pass, tickets) ==
    [quorumPercentage |-> quorum, passPercentage |-> pass, tickets |-> tickets]

\* The vote starts at block 0: it ends at the block of its duration.
StartVoteCmd(token, duration, cfg) ==
    Payload([token |-> token, mask |-> 3, duration |-> duration,
             quorumPercentage |-> cfg.quorumPercentage,
             passPercentage |-> cfg.passPercentage, options |-> VoteOptions])

StartVoteReply(endHeight, cfg) ==
    Payload([endHeight |-> endHeight, eligibleTickets |-> cfg.tickets])

\* startvote for every token, duration and configuration.
StartVoteOk(tokens, durations, cfgs) ==
    {Call(StartVoteCmd(t, d, cfg), StartVoteReply(FormatUint(d, 10), cfg),
          Env(0, <<>>)) : t \in tokens, d \in durations, cfg \in cfgs}

\* startvote whose write the database fails, whose end height is no
\* number, or with a payload of either kind that does not decode.
StartVoteFailing(tokens, cfgs) ==
    {Call(StartVoteCmd(t, 1, cfg), StartVoteReply(<<"1">>, cfg),
          Env(1, <<>>)) : t \in tokens, cfg \in cfgs}
    \cup {Call(StartVoteCmd(t, 1, cfg), StartVoteReply(<<"x">>, cfg),
               Env(0, <<>>)) : t \in tokens, cfg \in cfgs}
    \cup {Call(Malformed, StartVoteReply(<<"1">>, cfg), Env(0, <<>>)) :
             cfg \in cfgs}
    \cup {Call(StartVoteCmd(t, 1, cfg), Malformed, Env(0, <<>>)) :
             t \in tokens, cfg \in cfgs}

StartVoteCalls(tokens, durations, cfgs) ==
    StartVoteOk(tokens, durations, cfgs) \cup StartVoteFailing(tokens, cfgs)

CastVote(token, ticket, voteBit) ==
    [token |-> token, ticket |-> ticket, voteBit |-> voteBit]

BallotCmd(votes) == Payload([votes |-> votes])

\* What politeiad answers to a ballot; the cache does not read it.
BallotReply == Payload([receipts |-> <<>>])

BallotOk(ballots) ==
    {Call(BallotCmd(b), BallotReply, Env(0, <<>>)) : b \in ballots}

\* Each ballot with every write (the inserts in turn, then the commit)
\* failing, and a ballot that does not decode.
BallotCalls(ballots) ==
    {Call(BallotCmd(b), BallotReply, Env(f, <<>>)) :
        b \in ballots, f \in 0..3}
    \cup {Call(Malformed, BallotReply, Env(0, <<>>))}

\* The cast votes that a call adds when it succeeds.
BallotLen(c) == IF c.cp.ok THEN Len(c.cp.votes) ELSE 0

BestBlockCmd(b) == Payload([bestBlock |-> b])

LoadVoteResultsOk(blocks, orders) ==
    {Call(BestBlockCmd(b), EmptyPayload, Env(0, o)) :
        b \in blocks, o \in orders}

\* loadvoteresults at every best block, the rows of its query in every
\* order and each insert failing in turn.
LoadVoteResultsCalls(blocks, orders) ==
    {Call(BestBlockCmd(b), EmptyPayload, Env(f, o)) :
        b \in blocks, o \in orders, f \in 0..2}
    \cup {Call(Malformed, EmptyPayload, Env(0, o)) : o \in orders}

TokenInventoryCalls(blocks) ==
    {Call(BestBlockCmd(b), EmptyPayload, Env(0, <<>>)) : b \in blocks}
    \cup {Call(Malformed, EmptyPayload, Env(0, <<>>))}

DoStartVote(calls) ==
    \E c \in calls : ExecStep(CmdStartVote, c.cp, c.rp, c.env)

\* The cast_votes table is kept to maxCastVotes rows.
DoBallot(calls, maxCastVotes) ==
    \E c \in calls :
        /\ Len(castVotes) + BallotLen(c) <= maxCastVotes
        /\ ExecStep(CmdBallot, c.cp, c.rp, c.env)

\* The one batch of a vote: the first rows of cast_votes.
DoFirstBallot(calls) ==
    \E c \in calls :
        /\ castVotes = <<>>
        /\ ExecStep(CmdBallot, c.cp, c.rp, c.env)

DoLoadVoteResults(calls) ==
    \E c \in calls : ExecStep(CmdLoadVoteResults, c.cp, c.rp, c.env)

DoTokenInventory(calls) ==
    \E c \in calls : ExecStep(CmdTokenInventory, c.cp, c.rp, c.env)

(***************************************************************************)
(* The life of two votes: startvote, ballot, loadvoteresults and           *)
(* tokeninventory on the tokens a and b.                                   *)
(***************************************************************************)
MaxBestBlock == 2
MaxLoadCastVotes == 1

TicketT == <<"t">>
TicketU == <<"u">>

LoadConfigs == {VoteConfig(20, 60, <<TicketT, TicketU>>)}

LoadBallots ==
    {<<CastVote(TokenA, TicketT, VoteBitYes)>>,
     <<CastVote(TokenB, TicketT, VoteBitNo)>>}

TokenOrders == {<<TokenA, TokenB>>, <<TokenB, TokenA>>}

NextLoad ==
    \/ DoStartVote(StartVoteCalls({TokenA, TokenB}, 1..MaxBestBlock,
                                  LoadConfigs))
    \/ DoBallot(BallotOk(LoadBallots), MaxLoadCastVotes)
    \/ DoLoadVoteResults(LoadVoteResultsCalls(0..MaxBestBlock, TokenOrders))
    \/ DoTokenInventory(TokenInventoryCalls(0..MaxBestBlock))

SpecLoad == Init /\ [][NextLoad]_vars

\* The votes that have ended at block b.
Ended(b) == {sv \in startVotes : sv.endHeight <= b}

\* C2: when a loadvoteresults command that succeeded at best block b is
\* followed at once by a loadvoteresults command at the same or a larger
\* best block, every vote that had ended at b has exactly one VoteResults
\* row afterwards, the row it had; the second command succeeds when the
\* database fails none of its inserts, and at the same best block it
\* succeeds and changes no table whatever the database does.
LoadVoteResultsTwice ==
    [][ ( /\ last.cmd = CmdLoadVoteResults /\ last.err = ErrNil
          /\ last'.cmd = CmdLoadVoteResults /\ last'.cmdPayload.ok
          /\ last'.cmdPayload.bestBlock >= last.cmdPayload.bestBlock )
        => /\ \A sv \in Ended(last.cmdPayload.bestBlock) :
                 /\ Cardinality({vr \in voteResults' :
                                    vr.token = sv.token}) = 1
                 /\ {vr \in voteResults' : vr.token = sv.token}
                        = {vr \in voteResults : vr.token = sv.token}
           /\ last'.env.fault = 0 => last'.err = ErrNil
           /\ last'.cmdPayload.bestBlock = last.cmdPayload.bestBlock
                  => (last'.err = ErrNil /\ dbVars' = dbVars)
      ]_vars

\* A loadvoteresults command that found both votes ended and materialized:
\* it succeeded although the database would have failed its first insert.
LoadVoteResultsRepeated ==
    /\ last.cmd = CmdLoadVoteResults /\ last.err = ErrNil
    /\ last.env.fault = 1
    /\ Cardinality(Ended(last.cmdPayload.bestBlock)) = 2
    /\ Cardinality(voteResults) = 2

\* C3: tokeninventory(bestBlock) changes no table; it fails with
\* ErrRecordNotFound when some StartVote with endHeight <= bestBlock has no
\* VoteResults row and succeeds when there is none; it succeeds when it
\* follows at once a loadvoteresults command that succeeded at the same
\* best block.
TokenInventoryNeedsResults ==
    [][ /\ (last'.cmd = CmdTokenInventory /\ last'.cmdPayload.ok)
           => /\ dbVars' = dbVars
              /\ IF \E sv \in Ended(last'.cmdPayload.bestBlock) :
                        ~\E vr \in voteResults : vr.token = sv.token
                 THEN last'.err = ErrRecordNotFound
                 ELSE last'.err = ErrNil
        /\ ( /\ last.cmd = CmdLoadVoteResults /\ last.err = ErrNil
             /\ last'.cmd = CmdTokenInventory /\ last'.cmdPayload.ok
             /\ last'.cmdPayload.bestBlock = last.cmdPayload.bestBlock )
           => last'.err = ErrNil
      ]_vars

\* tokeninventory succeeded at a best block at which a vote had ended,
\* while the vote of the other token, ending later, has no results.
TokenInventoryAfterLoad ==
    /\ last.cmd = CmdTokenInventory /\ last.err = ErrNil
    /\ Ended(last.cmdPayload.bestBlock) # {}
    /\ \E sv \in startVotes :
           /\ sv.endHeight > last.cmdPayload.bestBlock
           /\ ~\E vr \in voteResults : vr.token = sv.token

(***************************************************************************)
(* Ballots of one and of two votes on two votes that have started, with    *)
(* every write of the batch failing in turn.                               *)
(***************************************************************************)
MaxCastVotes == 2

Ballots ==
    LoadBallots
        \cup {<<CastVote(TokenA, TicketU, VoteBitNo),
                CastVote(TokenB, TicketU, VoteBitYes)>>}

NextBallot ==
    \/ DoStartVote(StartVoteOk({TokenA, TokenB}, {1}, LoadConfigs))
    \/ DoBallot(BallotCalls(Ballots), MaxCastVotes)
    \/ DoLoadVoteResults(LoadVoteResultsOk({1}, TokenOrders))

SpecBallot == Init /\ [][NextBallot]_vars

\* The cast_votes rows of the votes of a ballot.
BallotRows(votes) ==
    [i \in 1..Len(votes) |-> convertCastVoteFromFonero(votes[i])]

\* C4: a ballot command fails when the database fails one of its inserts
\* or its commit, and then no table is changed; when it succeeds the
\* cast_votes table is the one before with the rows of all the votes of
\* the batch appended, and no other table is changed.
BallotAllOrNothing ==
    [][ (last'.cmd = CmdBallot /\ last'.cmdPayload.ok)
        => /\ last'.env.fault \in 1..(Len(last'.cmdPayload.votes) + 1)
                  => last'.err # ErrNil
           /\ last'.err # ErrNil => dbVars' = dbVars
           /\ last'.err = ErrNil
                  => /\ castVotes'
                            = castVotes \o BallotRows(last'.cmdPayload.votes)
                     /\ UNCHANGED <<records, comments, likes, authorizeVotes,
                                    startVotes, voteResults>>
      ]_vars

\* A ballot of two votes whose second insert the database failed, after
\* the first was carried out.
BallotRolledBack ==
    /\ last.cmd = CmdBallot /\ last.err = ErrStorage
    /\ last.cmdPayload.ok /\ Len(last.cmdPayload.votes) = 2
    /\ last.env.fault = 2

(***************************************************************************)
(* The tally of one vote under every configuration: thresholds of 0, 60    *)
(* and 100 percent, and none, one or two eligible tickets.                 *)
(***************************************************************************)
MaxTallyVotes == 3

TallyConfigs ==
    {VoteConfig(q, p, tk) :
        q \in {0, 60, 100}, p \in {0, 60, 100},
        tk \in {<<>>, <<TicketT>>, <<TicketT, TicketU>>}}

TallyBallots ==
    {<<CastVote(TokenA, TicketT, VoteBitYes)>>,
     <<CastVote(TokenA, TicketU, VoteBitNo)>>}

NextTally ==
    \/ DoStartVote(StartVoteOk({TokenA}, {1}, TallyConfigs))
    \/ DoBallot(BallotOk(TallyBallots), MaxTallyVotes)
    \/ DoLoadVoteResults(LoadVoteResultsOk({1}, {<<TokenA>>}))

SpecTally == Init /\ [][NextTally]_vars

\* The cast votes of a token, and those of them with a vote bit.
VotesOf(token) == {i \in 1..Len(castVotes) : castVotes[i].token = token}
VotesFor(token, voteBit) ==
    {i \in VotesOf(token) : castVotes[i].voteBit = voteBit}

\* C5: the approved flag of every VoteResults row that a command creates is
\* (totalVotes >= quorum /\ yesVotes >= pass) with quorum the truncation of
\* quorumPercentage/100 * eligibleTicketCount, eligibleTicketCount the
\* number of eligible tickets of the StartVote, and pass the truncation of
\* passPercentage/100 * totalVotes, both in the float64 arithmetic of Go.
ApprovedByCount ==
    [][ \A vr \in voteResults' \ voteResults :
            \A sv \in startVotes :
                sv.token = vr.token =>
                    vr.approved =
                        ( /\ Cardinality(VotesOf(vr.token))
                                 >= PercentOf(sv.quorumPercentage,
                                              sv.eligibleTicketCount)
                          /\ Cardinality(VotesFor(vr.token, VoteBitYes))
                                 >= PercentOf(sv.passPercentage,
                                              Cardinality(VotesOf(vr.token))) )
      ]_vars

(***************************************************************************)
(* One vote with 100 eligible tickets, a quorum of 20 and a pass threshold *)
(* of 60 percent; one batch of cast votes, the yes votes first.            *)
(***************************************************************************)
MaxYes == 20
MaxNo == 10

\* The i-th ticket: two hexadecimal digits.
Ticket(i) == FormatUint(i + 15, 16)

ScenarioConfig == VoteConfig(20, 60, [i \in 1..100 |-> Ticket(i)])

ScenarioBallot(yes, no) ==
    [i \in 1..(yes + no) |->
        CastVote(TokenA, Ticket(i), IF i <= yes THEN VoteBitYes ELSE VoteBitNo)]

ScenarioBallots ==
    {ScenarioBallot(yes, no) : yes \in 0..MaxYes, no \in 0..MaxNo}
        \ {<<>>}

NextScenario ==
    \/ DoStartVote(StartVoteOk({TokenA}, {1}, {ScenarioConfig}))
    \/ DoFirstBallot(BallotOk(ScenarioBallots))
    \/ DoLoadVoteResults(LoadVoteResultsOk({1}, {<<TokenA>>}))

SpecScenario == Init /\ [][NextScenario]_vars

\* C6: with 100 eligible tickets, a quorum of 20 and a pass threshold of
\* 60 percent (a quorum of 20, and a pass of 18 for 30 votes), a row that
\* is created when 20 yes and 10 no votes are cast counts 20 and 10 and is
\* approved; a row created when 10 yes and 5 no votes are cast counts 10
\* and 5 and is not approved.
ScenarioApproved ==
    [][ \A vr \in voteResults' \ voteResults :
            /\ PercentOf(20, 100) = 20 /\ PercentOf(60, 30) = 18
            /\ vr.results[1].votes = Cardinality(VotesFor(TokenA, VoteBitYes))
            /\ vr.results[2].votes = Cardinality(VotesFor(TokenA, VoteBitNo))
            /\ ( /\ Cardinality(VotesFor(TokenA, VoteBitYes)) = 20
                 /\ Cardinality(VotesFor(TokenA, VoteBitNo)) = 10 )
               => vr.approved
            /\ ( /\ Cardinality(VotesFor(TokenA, VoteBitYes)) = 10
                 /\ Cardinality(VotesFor(TokenA, VoteBitNo)) = 5 )
               => ~vr.approved
      ]_vars

\* The vote approved with 20 yes and 10 no votes cast: its row was created
\* after the batch, for a row created before it is not approved.
ScenarioThirtyVotes ==
    /\ Cardinality(VotesFor(TokenA, VoteBitYes)) = 20
    /\ Cardinality(VotesFor(TokenA, VoteBitNo)) = 10
    /\ \E vr \in voteResults : vr.approved
    /\ \E sv \in startVotes : sv.eligibleTicketCount = 100

(***************************************************************************)
(* startvote on the cockroachdb cache, on the testcache and on             *)
(* TestPoliteiad: the tokens a and b, votes of one or two blocks.          *)
(***************************************************************************)
StartCalls == StartVoteCalls({TokenA, TokenB}, 1..MaxBestBlock, LoadConfigs)

TcStartVote ==
    \E c \in {d \in StartCalls : d.env.fault = 0} :
        TcExecStep(CmdStartVote, c.cp, c.rp)

TpStartVote ==
    \E payload \in {c.cp : c \in StartCalls} : TpExecStep(CmdStartVote, payload)

NextStart == DoStartVote(StartCalls) \/ TcStartVote \/ TpStartVote

SpecStart == Init /\ [][NextStart]_vars

\* C9: no step changes a StartVote that is stored, in the cockroachdb
\* cache, in the testcache or in TestPoliteiad: the token keeps its one
\* StartVote, with the options, mask, duration, thresholds, end height and
\* eligible tickets it was given first.
StartVoteKept ==
    [][ /\ \A sv \in startVotes :
               {r \in startVotes' : r.token = sv.token} = {sv}
        /\ \A t \in DOMAIN tcStartVotes :
               /\ t \in DOMAIN tcStartVotes'
               /\ tcStartVotes'[t] = tcStartVotes[t]
               /\ tcStartVoteReplies'[t] = tcStartVoteReplies[t]
        /\ \A t \in DOMAIN tpStartVotes :
               /\ t \in DOMAIN tpStartVotes'
               /\ tpStartVotes'[t] = tpStartVotes[t]
               /\ tpStartVoteReplies'[t] = tpStartVoteReplies[t]
      ]_vars

(***************************************************************************)
(* Exec of the cockroachdb cache with every plugin command, on the token   *)
(* a: one comment, one record version, one vote that ends at block 1.      *)
(***************************************************************************)
MaxLikes == 1
MaxExecCastVotes == 1

CommentID == <<"1">>

TokenCmd == Payload([token |-> TokenA])
CommentCmd == Payload([token |-> TokenA, commentID |-> CommentID])

\* A call that reads: its payload, or a payload that does not decode.
ReadCalls(cp) ==
    {Call(cp, EmptyPayload, Env(0, <<>>)),
     Call(Malformed, EmptyPayload, Env(0, <<>>))}

\* A call that writes once: carried out, failed by the database, or with a
\* payload of either kind that does not decode.
WriteCalls(cp, rp) ==
    {Call(cp, rp, Env(0, <<>>)), Call(cp, rp, Env(1, <<>>)),
     Call(Malformed, rp, Env(0, <<>>)), Call(cp, Malformed, Env(0, <<>>))}

NewCommentCalls ==
    WriteCalls(Payload([token |-> TokenA, parentID |-> <<"0">>,
                        comment |-> "comment", signature |-> "s1",
                        publicKey |-> "k1"]),
               Payload([commentID |-> CommentID, receipt |-> "r1",
                        timestamp |-> 1]))

LikeCommentCalls ==
    WriteCalls(Payload([token |-> TokenA, commentID |-> CommentID,
                        action |-> "1"]),
               Payload([total |-> 1, result |-> 1, receipt |-> "r2"]))

CensorCommentCalls == WriteCalls(CommentCmd, Payload([receipt |-> "r3"]))

ExecAuthorizeVoteCalls ==
    {c \in AuthorizeVoteCalls :
        /\ c.env.fault \in {0, 3}
        /\ c.rp.ok => (c.rp.recordVersion # <<"2">> /\ c.rp.timestamp <= 2)
        /\ c.cp.ok \/ c.rp.timestamp = 1}

ExecBallots == {<<CastVote(TokenA, TicketT, VoteBitYes)>>}

ExecBallotCalls ==
    BallotCalls(ExecBallots)
        \cup {Call(c.cp, Malformed, c.env) : c \in BallotOk(ExecBallots)}

DoExec(cmd, calls) == \E c \in calls : ExecStep(cmd, c.cp, c.rp, c.env)

\* The comment_likes table is kept to MaxLikes rows.
DoLikeComment(calls) ==
    \E c \in calls :
        /\ Len(likes) < MaxLikes
        /\ ExecStep(CmdLikeComment, c.cp, c.rp, c.env)

Next ==
    \/ DoExec(CmdAuthorizeVote, ExecAuthorizeVoteCalls)
    \/ DoStartVote(StartVoteCalls({TokenA}, {1}, LoadConfigs))
    \/ DoExec(CmdVoteDetails, ReadCalls(TokenCmd))
    \/ DoBallot(ExecBallotCalls, MaxExecCastVotes)
    \/ DoExec(CmdBestBlock, ReadCalls(EmptyPayload))
    \/ DoExec(CmdNewComment, NewCommentCalls)
    \/ DoLikeComment(LikeCommentCalls)
    \/ DoExec(CmdCensorComment, CensorCommentCalls)
    \/ DoExec(CmdGetComment, ReadCalls(CommentCmd))
    \/ DoExec(CmdGetComments, ReadCalls(TokenCmd))
    \/ DoExec(CmdProposalVotes, ReadCalls(TokenCmd))
    \/ DoExec(CmdCommentLikes, ReadCalls(CommentCmd))
    \/ DoExec(CmdProposalCommentsLikes, ReadCalls(TokenCmd))
    \/ DoExec(CmdInventory, ReadCalls(EmptyPayload))
    \/ DoLoadVoteResults(LoadVoteResultsCalls(0..1, {<<TokenA>>}))
    \/ DoTokenInventory(TokenInventoryCalls(0..1))
    \/ DoExec(CmdVoteSummary, ReadCalls(TokenCmd))
    \/ DoExec("unknown", ReadCalls(TokenCmd))

Spec == Init /\ [][Next]_vars

\* C7: every VoteResults row that a step creates is created by a
\* loadvoteresults command, for a token whose StartVote has an end height
\* of at most the best block of the command.
VoteResultsOnlyLoaded ==
    [][ \A vr \in voteResults' \ voteResults :
            /\ last'.cmd = CmdLoadVoteResults /\ last'.cmdPayload.ok
            /\ \E sv \in startVotes :
                   /\ sv.token = vr.token
                   /\ sv.endHeight <= last'.cmdPayload.bestBlock
      ]_vars

\* The results of a vote with one yes vote counted: startvote, ballot and
\* loadvoteresults have acted, in this order.
VoteResultsLoaded ==
    \E vr \in voteResults : vr.results[1].votes = 1

\* C8: a VoteResults row that exists is there after every step, with the
\* approved flag and the option counts it has.
VoteResultsKept == [][voteResults \subseteq voteResults']_vars

\* Results without a yes vote for a token that has one cast, after a
\* loadvoteresults command that succeeded: the vote was cast when the
\* results existed, and the command left them.
VoteResultsOutlived ==
    /\ last.cmd = CmdLoadVoteResults /\ last.err = ErrNil
    /\ \E vr \in voteResults :
           /\ vr.results[1].votes = 0
           /\ VotesFor(vr.token, VoteBitYes) # {}

\* The commands whose handler is given a payload to decode, and those of
\* them that write what the reply payload holds.
PayloadCommands ==
    {CmdAuthorizeVote, CmdStartVote, CmdVoteDetails, CmdBallot, CmdNewComment,
     CmdLikeComment, CmdCensorComment, CmdGetComment, CmdGetComments,
     CmdProposalVotes, CmdCommentLikes, CmdProposalCommentsLikes,
     CmdLoadVoteResults, CmdTokenInventory, CmdVoteSummary}
WriteThroughCommands ==
    {CmdNewComment, CmdLikeComment, CmdCensorComment, CmdAuthorizeVote,
     CmdStartVote, CmdBallot}

\* C10: a command payload that does not decode, or for a write-through
\* command a reply payload that does not decode, makes Exec return an
\* error and change no table.
InvalidPayloadRejected ==
    [][ ( /\ last'.cmd \in PayloadCommands
          /\ \/ ~last'.cmdPayload.ok
             \/ last'.cmd \in WriteThroughCommands /\ ~last'.replyPayload.ok )
        => (last'.err # ErrNil /\ dbVars' = dbVars)
      ]_vars
(***************************************************************************)
(* Command names: Exec of the cockroachdb cache and foneroExec of the      *)
(* testcache with names they know and names they do not, after comments,   *)
(* votes and authorizations are stored.                                    *)
(***************************************************************************)
\* The names of the switch of Exec, and those of testcache.foneroExec.
SupportedCommands ==
    {CmdAuthorizeVote, CmdStartVote, CmdVoteDetails, CmdBallot, CmdBestBlock,
     CmdNewComment, CmdLikeComment, CmdCensorComment, CmdGetComment,
     CmdGetComments, CmdProposalVotes, CmdCommentLikes,
     CmdProposalCommentsLikes, CmdInventory, CmdLoadVoteResults,
     CmdTokenInventory, CmdVoteSummary}
TcSupportedCommands ==
    {CmdGetComments, CmdAuthorizeVote, CmdStartVote, CmdVoteDetails}

\* Names in no switch: an unknown word, the empty name, a known name in
\* another case and a known name with a space after it.
OtherCommands == {"unknown", "", "NewComment", "startvote "}

\* The payloads given with a name: a command payload alone, both payloads
\* of a newcomment or of a startvote, and payloads that do not decode.
CommandCalls ==
    ReadCalls(TokenCmd) \cup NewCommentCalls
        \cup StartVoteOk({TokenA}, {1}, LoadConfigs)

ExecCommand(cmds) ==
    \E cmd \in cmds, c \in CommandCalls : ExecStep(cmd, c.cp, c.rp, c.env)

TcExecCommand(cmds) ==
    \E cmd \in cmds, c \in {d \in CommandCalls : d.env.fault = 0} :
        TcExecStep(cmd, c.cp, c.rp)

NextCommands ==
    \/ DoExec(CmdNewComment, NewCommentCalls)
    \/ DoExec(CmdAuthorizeVote, ExecAuthorizeVoteCalls)
    \/ DoStartVote(StartVoteOk({TokenA}, {1}, LoadConfigs))
    \/ ExecCommand(OtherCommands)
    \/ ExecCommand({CmdBestBlock})
    \/ \E c \in StartVoteOk({TokenA, TokenB}, {1}, LoadConfigs) :
           TcExecStep(CmdStartVote, c.cp, c.rp)
    \/ TcExecCommand(OtherCommands \cup (SupportedCommands \ TcSupportedCommands))

SpecCommands == Init /\ [][NextCommands]_vars

\* C11: Exec called with a name that is in none of its cases returns
\* ErrInvalidPluginCmd and no reply, and changes no table, whatever the
\* payloads are; Exec called with bestblock returns no error and no reply
\* and changes no table; foneroExec of the testcache called with a name
\* that is in none of its cases returns ErrInvalidPluginCmd and changes
\* none of its maps.
UnknownCommandRejected ==
    [][ /\ (last'.impl = "cockroachdb" /\ last'.cmd \notin SupportedCommands)
           => /\ last'.err = ErrInvalidPluginCmd
              /\ last'.reply = EmptyPayload
              /\ dbVars' = dbVars
        /\ (last'.impl = "cockroachdb" /\ last'.cmd = CmdBestBlock)
           => /\ last'.err = ErrNil
              /\ last'.reply = EmptyPayload
              /\ dbVars' = dbVars
        /\ (last'.impl = "testcache" /\ last'.cmd \notin TcSupportedCommands)
           => /\ last'.err = ErrInvalidPluginCmd
              /\ tcVars' = tcVars
      ]_vars

\* The name of newcomment in another case, given the payloads of a
\* newcomment, was rejected by the cockroachdb cache while it holds a
\* comment, a StartVote and an AuthorizeVote.
UnknownCommandOverData ==
    /\ last.impl = "cockroachdb" /\ last.cmd = "NewComment"
    /\ last.cmdPayload.ok /\ last.replyPayload.ok
    /\ last.err = ErrInvalidPluginCmd
    /\ comments # {} /\ startVotes # {} /\ authorizeVotes # {}

(***************************************************************************)
(* The write-through commands on the token a, each with every one of its   *)
(* writes failed by the database in turn.                                  *)
(***************************************************************************)
MaxWriteCastVotes == 2

WriteAuthorizeVoteCalls ==
    {c \in AuthorizeVoteCalls : c.rp.ok => c.rp.recordVersion # <<"2">>}

WriteBallots ==
    ExecBallots
        \cup {<<CastVote(TokenA, TicketT, VoteBitNo),
                CastVote(TokenA, TicketU, VoteBitYes)>>}

NextWrites ==
    \/ DoExec(CmdNewComment, NewCommentCalls)
    \/ DoLikeComment(LikeCommentCalls)
    \/ DoExec(CmdCensorComment, CensorCommentCalls)
    \/ DoExec(CmdAuthorizeVote, WriteAuthorizeVoteCalls)
    \/ DoStartVote(StartVoteCalls({TokenA}, {1}, LoadConfigs))
    \/ DoBallot(BallotCalls(WriteBallots), MaxWriteCastVotes)

SpecWrites == Init /\ [][NextWrites]_vars

\* The writes that a write-through command asks of the database: the one
\* insert or update of the comment commands and of startvote; the delete,
\* the insert and the commit of authorizevote; the inserts and the commit
\* of ballot.
WriteCount(cmd, cmdPayload) ==
    CASE cmd = CmdAuthorizeVote -> 3
      [] cmd = CmdBallot ->
             IF cmdPayload.ok THEN Len(cmdPayload.votes) + 1 ELSE 1
      [] OTHER -> 1

\* C12: a write-through command that the database fails one of the writes
\* of returns an error; a write-through command that returns an error
\* leaves every table as it was; and an authorizevote whose insert fails
\* after its delete leaves the AuthorizeVote rows that were stored.
WriteFailureKeepsRows ==
    [][ (last'.impl = "cockroachdb" /\ last'.cmd \in WriteThroughCommands)
        => /\ last'.env.fault \in 1..WriteCount(last'.cmd, last'.cmdPayload)
                  => last'.err # ErrNil
           /\ last'.err # ErrNil => dbVars' = dbVars
           /\ (last'.cmd = CmdAuthorizeVote /\ last'.env.fault = 2)
                  => authorizeVotes' = authorizeVotes
      ]_vars

\* An authorizevote whose insert the database failed, after the delete of
\* the row of its key was carried out: the key still holds the row it had,
\* with another action and receipt than those of the command.
AuthorizeVoteInsertFailed ==
    /\ last.impl = "cockroachdb" /\ last.cmd = CmdAuthorizeVote
    /\ last.cmdPayload.ok /\ last.replyPayload.ok
    /\ last.env.fault = 2 /\ last.err = ErrStorage
    /\ \E r \in authorizeVotes :
           /\ r.key = last.cmdPayload.token \o last.replyPayload.recordVersion
           /\ r.action # last.cmdPayload.action
           /\ r.receipt # last.replyPayload.receipt

(***************************************************************************)
(* The write-through commands on the cockroachdb cache and on the          *)
(* testcache, which knows authorizevote and startvote of them.             *)
(***************************************************************************)
NextReplies ==
    \/ DoExec(CmdNewComment, NewCommentCalls)
    \/ DoLikeComment(LikeCommentCalls)
    \/ DoExec(CmdCensorComment, CensorCommentCalls)
    \/ DoExec(CmdAuthorizeVote, ExecAuthorizeVoteCalls)
    \/ DoStartVote(StartVoteCalls({TokenA}, {1}, LoadConfigs))
    \/ DoBallot(ExecBallotCalls, MaxExecCastVotes)
    \/ \E c \in {d \in ExecAuthorizeVoteCalls : d.env.fault = 0} :
           TcExecStep(CmdAuthorizeVote, c.cp, c.rp)
    \/ \E c \in {d \in StartVoteCalls({TokenA}, {1}, LoadConfigs) :
                    d.env.fault = 0} :
           TcExecStep(CmdStartVote, c.cp, c.rp)

SpecReplies == Init /\ [][NextReplies]_vars

\* C13: a write-through command that returns no error returns the reply
\* payload it was given, on the cockroachdb cache and on the testcache.
ReplyPayloadReturned ==
    [][ ( /\ last'.impl \in {"cockroachdb", "testcache"}
          /\ last'.cmd \in WriteThroughCommands
          /\ last'.err = ErrNil )
        => last'.reply = last'.replyPayload
      ]_vars

\* A likecomment that succeeded and answered with the like's receipt,
\* after newcomment, censorcomment, authorizevote, startvote and ballot
\* have written their rows and the testcache holds a vote of either kind.
ReplyPayloadOfLike ==
    /\ last.impl = "cockroachdb" /\ last.cmd = CmdLikeComment
    /\ last.err = ErrNil /\ last.replyPayload.ok
    /\ last.reply.receipt = "r2"
    /\ \E c \in comments : c.censored
    /\ authorizeVotes # {} /\ startVotes # {} /\ castVotes # <<>>
    /\ TokenA \in DOMAIN tcAuthorizeVotes /\ TokenA \in DOMAIN tcStartVotes

(***************************************************************************)
(* The life of the plugin's schema: Setup, CheckVersion and Build on the   *)
(* databases that earlier runs leave, and commands served in between.      *)
(***************************************************************************)
OldVersion == "1.0"
LaterVersion == "1.10"
\* The tables of an earlier version of the plugin, which kept no results.
OldTables == {PluginTables[i] : i \in 1..6}

VersionRow(version, timestamp) ==
    [id |-> foneroID, version |-> version, timestamp |-> timestamp]

StoredComment ==
    [token |-> TokenA, parentID |-> <<"0">>, comment |-> "comment",
     signature |-> "s1", publicKey |-> "k1", commentID |-> CommentID, receipt |-> "r1", timestamp |-> 1]

\* What the database holds when the cache is started: <<tables, versions,
\* comments>>.  A new database; one that an earlier version set up and
\* wrote a comment to; one of this version, of a later version, and one
\* whose version record a failed Build deleted.
StoredSchemas ==
    {<<{tableVersions}, {}, {}>>,
     <<OldTables \cup {tableVersions}, {VersionRow(OldVersion, 0)},
       {convertCommentFromFonero(StoredComment)}>>,
     <<SeqToSet(PluginTables) \cup {tableVersions},
       {VersionRow(foneroVersion, 0)}, {}>>,
     <<SeqToSet(PluginTables) \cup {tableVersions},
       {VersionRow(LaterVersion, 0)}, {}>>,
     <<SeqToSet(PluginTables) \cup {tableVersions}, {}, {}>>}

InitStored ==
    /\ \E s \in StoredSchemas :
           tables = s[1] /\ versions = s[2] /\ comments = s[3]
    /\ records = {} /\ likes = <<>> /\ authorizeVotes = {}
    /\ startVotes = {} /\ castVotes = <<>> /\ voteResults = {}
    /\ tcRecords = EmptyMap /\ tcAuthorizeVotes = EmptyMap
    /\ tcStartVotes = EmptyMap /\ tcStartVoteReplies = EmptyMap
    /\ tcComments = EmptyMap
    /\ tpStartVotes = EmptyMap /\ tpStartVoteReplies = EmptyMap
    /\ mutex = Unlocked /\ running = NoCalls
    /\ last = NoCall

\* The parts of an inventory.
InventoryAuthorizeVote(s) == AuthorizeVoteCmd(TokenA, s) @@ [receipt |-> s.receipt]
InventoryAuthorizeVotes ==
    <<InventoryAuthorizeVote(
          [action |-> AuthVoteActionAuthorize, receipt |-> "r1",
           timestamp |-> 1]),
      InventoryAuthorizeVote(
          [action |-> AuthVoteActionRevoke, receipt |-> "r2",
           timestamp |-> 2])>>
InventoryReplies(recordVersion) ==
    <<AuthorizeVoteReply([action |-> AuthVoteActionAuthorize,
                          receipt |-> "r1", timestamp |-> 1], recordVersion),
      AuthorizeVoteReply([action |-> AuthVoteActionRevoke,
                          receipt |-> "r2", timestamp |-> 2], recordVersion)>>
InventoryStartVote(endHeight) ==
    [startVote |-> StartVoteCmd(TokenA, 1, VoteConfig(20, 60, <<TicketT>>)),
     startVoteReply |->
         StartVoteReply(endHeight, VoteConfig(20, 60, <<TicketT>>))]
InventoryLike ==
    [token |-> TokenA, commentID |-> CommentID, action |-> "1"]

Inventory(cs, ls, avs, avrs, svs, cvs) ==
    Payload([comments |-> cs, likeComments |-> ls, authorizeVotes |-> avs,
             authorizeVoteReplies |-> avrs, startVoteTuples |-> svs,
             castVotes |-> cvs])

\* An inventory with a row for every table: 21 writes replay it.
InventoryFull ==
    Inventory(<<StoredComment>>, <<InventoryLike>>, InventoryAuthorizeVotes,
              InventoryReplies(<<"1">>), <<InventoryStartVote(<<"1">>)>>,
              <<CastVote(TokenA, TicketT, VoteBitYes)>>)
\* An inventory of likes and cast votes alone.
InventoryLogs ==
    Inventory(<<>>, <<InventoryLike>>, <<>>, <<>>, <<>>,
              <<CastVote(TokenA, TicketT, VoteBitYes)>>)
\* Inventories whose replay fails: a comment twice, no reply for an
\* AuthorizeVote, a record version and an end height that are no numbers.
InventoriesFailing ==
    {Inventory(<<StoredComment, StoredComment>>, <<>>, <<>>, <<>>, <<>>, <<>>),
     Inventory(<<StoredComment>>, <<>>, InventoryAuthorizeVotes,
               SubSeq(InventoryReplies(<<"1">>), 1, 1), <<>>, <<>>),
     Inventory(<<>>, <<InventoryLike>>, InventoryAuthorizeVotes,
               InventoryReplies(<<"x">>), <<>>, <<>>),
     Inventory(<<>>, <<>>, <<>>, <<>>, <<InventoryStartVote(<<"x">>)>>, <<>>)}

BuildWrites == 21
SetupWrites == 10
Clock == {1, 2}

\* The calls of Build: the full inventory with every write failing in
\* turn, the others carried out, and a payload that does not decode.
BuildCalls ==
    {Call(InventoryFull, EmptyPayload, Env(f, <<>>)) : f \in 0..BuildWrites}
    \cup {Call(ir, EmptyPayload, Env(0, <<>>)) :
             ir \in InventoriesFailing \cup {InventoryLogs, Malformed}}

DoBuild ==
    \E c \in BuildCalls, now \in Clock, deleteFailed \in BOOLEAN :
        BuildStep(c.cp, c.env, now, deleteFailed)

DoSetup == \E f \in 0..SetupWrites, now \in Clock : SetupStep(Env(f, <<>>), now)

\* A command is served when the plugin tables exist and CheckVersion has
\* found the version of the implementation.
Served(cmd, calls) ==
    /\ SeqToSet(PluginTables) \subseteq tables
    /\ CheckVersion(DB) = ErrNil
    /\ DoExec(cmd, calls)

\* The startvote and loadvoteresults calls that a served cache receives.
ServedStartVoteCalls == StartVoteOk({TokenA, TokenB}, {1}, LoadConfigs)

ServedLoadVoteResultsCalls == LoadVoteResultsOk({1}, TokenOrders)

NextLifecycle ==
    \/ DoBuild
    \/ DoSetup
    \/ CheckVersionStep
    \/ Served(CmdStartVote, ServedStartVoteCalls)
    \/ Served(CmdLoadVoteResults, ServedLoadVoteResultsCalls)

SpecLifecycle == InitStored /\ [][NextLifecycle]_vars


\* C14: when Build returns an error of build (its payload decoded, and it
\* did not panic on the delete), no version record of the plugin is
\* stored and CheckVersion, called next, returns ErrNoVersionRecord.
BuildFailureDropsVersion ==
    [][ ( /\ last'.cmd = "Build" /\ last'.cmdPayload.ok
          /\ last'.err \notin {ErrNil, ErrPanic} )
        => /\ VersionRows(versions') = {}
           /\ CheckVersion(DB') = ErrNoVersionRecord
      ]_vars

\* Build failed on the insert of the StartVote, after it had dropped and
\* created the tables, stored the version record and replayed the
\* comments, likes and AuthorizeVotes of the inventory.
BuildFailedHalfway ==
    /\ last.cmd = "Build" /\ last.err = ErrStorage /\ last.env.fault = 20
    /\ comments # {} /\ likes # <<>> /\ authorizeVotes # {}
    /\ startVotes = {}
    /\ VersionRows(versions) = {}


\* C15: when a Build that succeeded is followed at once by a Build of the
\* same inventory that succeeds, the comments, likes, AuthorizeVotes,
\* StartVotes with their options and cast votes are after the second what
\* they were after the first: no key is held twice, and there is one like
\* and one cast vote for each of the inventory.
BuildTwiceSame ==
    [][ ( /\ last.cmd = "Build" /\ last.err = ErrNil
          /\ last'.cmd = "Build" /\ last'.err = ErrNil
          /\ last'.cmdPayload = last.cmdPayload )
        => /\ comments' = comments /\ likes' = likes
           /\ authorizeVotes' = authorizeVotes /\ startVotes' = startVotes
           /\ castVotes' = castVotes
           /\ \A c, d \in comments' : c.key = d.key => c = d
           /\ \A a, b \in authorizeVotes' : a.key = b.key => a = b
           /\ \A s, t \in startVotes' : s.token = t.token => s = t
           /\ Len(likes') = Len(last'.cmdPayload.likeComments)
           /\ Len(castVotes') = Len(last'.cmdPayload.castVotes)
      ]_vars

\* A Build of the full inventory that succeeded: every table holds its
\* row, the AuthorizeVote being the later of the two of the inventory.
BuildReplayedAll ==
    /\ last.cmd = "Build" /\ last.err = ErrNil
    /\ last.cmdPayload = InventoryFull
    /\ Cardinality(comments) = 1 /\ Len(likes) = 1
    /\ \E a \in authorizeVotes : a.action = AuthVoteActionRevoke
    /\ Cardinality(authorizeVotes) = 1
    /\ Cardinality(startVotes) = 1 /\ Len(castVotes) = 1
    /\ VersionRows(versions) # {}


\* C16: Setup removes and changes no row of a plugin table, drops no
\* table and removes no version record; it changes nothing at all when it
\* returns an error; after a Setup that succeeded every plugin table
\* exists and a version record of the plugin is stored; and a Setup that
\* follows at once a Setup that succeeded changes nothing, and succeeds
\* when the database carries out its commit.
SetupKeepsRows ==
    [][ last'.cmd = "Setup"
        => /\ UNCHANGED <<records, comments, likes, authorizeVotes,
                          startVotes, castVotes, voteResults>>
           /\ tables \subseteq tables' /\ versions \subseteq versions'
           /\ last'.err # ErrNil => dbVars' = dbVars
           /\ last'.err = ErrNil
                  => /\ SeqToSet(PluginTables) \subseteq tables'
                     /\ VersionRows(versions') # {}
           /\ (last.cmd = "Setup" /\ last.err = ErrNil)
                  => /\ dbVars' = dbVars
                     /\ last'.env.fault # 1 => last'.err = ErrNil
      ]_vars

\* Setup succeeded on the database of the earlier version: the tables of
\* the results exist beside the comment and the version record that the
\* earlier version stored.
SetupOverStoredRows ==
    /\ last.cmd = "Setup" /\ last.err = ErrNil
    /\ comments = {convertCommentFromFonero(StoredComment)}
    /\ "vote_results" \in tables
    /\ versions = {VersionRow(OldVersion, 0)}


\* C17: CheckVersion changes no state; it returns ErrNoVersionRecord when
\* no version record of the plugin is stored, ErrWrongVersion when the
\* version of the stored record is not foneroVersion, and no error when
\* it is.
CheckVersionCompares ==
    [][ last'.cmd = "CheckVersion"
        => /\ UNCHANGED <<dbVars, tcVars, tpVars>>
           /\ last'.err =
                  IF \A v \in versions : v.id # foneroID
                  THEN ErrNoVersionRecord
                  ELSE IF \E v \in versions :
                              v.id = foneroID /\ v.version = foneroVersion
                  THEN ErrNil
                  ELSE ErrWrongVersion
      ]_vars

\* CheckVersion returned ErrWrongVersion for the record of a version that
\* foneroVersion is a prefix of.
CheckVersionOfLater ==
    /\ last.cmd = "CheckVersion" /\ last.err = ErrWrongVersion
    /\ versions = {VersionRow(LaterVersion, 0)}


(***************************************************************************)
(* Comments of two records: newcomment, censorcomment and getcomment on    *)
(* the cockroachdb cache, with comment IDs that both records use.          *)
(***************************************************************************)
CommentTokens == {TokenA, TokenB}
CommentIDs == {<<"1">>, <<"2">>}

\* The newcomment that politeiad carried out for a comment, and its reply.
CommentNew(token, id) ==
    Payload([token |-> token,
             parentID |-> IF id = <<"1">> THEN <<"0">> ELSE <<"1">>,
             comment |-> IF token = TokenA THEN "comment" ELSE "reply",
             signature |-> IF id = <<"1">> THEN "s1" ELSE "s2",
             publicKey |-> IF token = TokenA THEN "k1" ELSE "k2"])

CommentNewReply(token, id) ==
    Payload([commentID |-> id,
             receipt |-> IF token = TokenA THEN "r1" ELSE "r2",
             timestamp |-> IF id = <<"1">> THEN 1 ELSE 2])

CommentNewCalls ==
    UNION {WriteCalls(CommentNew(t, id), CommentNewReply(t, id)) :
               t \in CommentTokens, id \in CommentIDs}

\* censorcomment and getcomment also name a comment that was never made.
CommentKeys ==
    {Payload([token |-> t, commentID |-> id]) :
         t \in CommentTokens, id \in CommentIDs \cup {<<"3">>}}

CommentCensorCalls ==
    UNION {WriteCalls(k, Payload([receipt |-> "r3"])) : k \in CommentKeys}

CommentGetCalls == UNION {ReadCalls(k) : k \in CommentKeys}

NextComments ==
    \/ DoExec(CmdNewComment, CommentNewCalls)
    \/ DoExec(CmdCensorComment, CommentCensorCalls)
    \/ DoExec(CmdGetComment, CommentGetCalls)

SpecComments == Init /\ [][NextComments]_vars

\* The comment that getcomment returns for a comment made by
\* CommentNew(token, id) and then censored.
CommentCensored(token, id) ==
    [token |-> token, commentID |-> id,
     parentID |-> CommentNew(token, id).parentID,
     publicKey |-> CommentNew(token, id).publicKey,
     signature |-> CommentNew(token, id).signature,
     receipt |-> CommentNewReply(token, id).receipt,
     timestamp |-> CommentNewReply(token, id).timestamp,
     comment |-> "", censored |-> TRUE,
     totalVotes |-> 0, resultVotes |-> 0]

\* C18: after a newcomment and then a censorcomment of the same token and
\* comment ID, getcomment returns the comment with an empty text and
\* censored set, and with the token, comment ID, parent ID, public key,
\* signature, receipt and timestamp of its creation.  In steps: a
\* newcomment that succeeds stores the comment under its token and ID; a
\* censorcomment that succeeds marks the stored comment of its token and
\* ID; a marked comment stays marked; getcomment of a marked comment
\* succeeds with the comment described.
CensoredCommentRead ==
    [][ /\ ( /\ last'.cmd = CmdNewComment /\ last'.err = ErrNil )
            => \E c \in comments' :
                   /\ c.token = last'.cmdPayload.token
                   /\ c.commentID = last'.replyPayload.commentID
                   /\ ~c.censored
        /\ ( /\ last'.cmd = CmdCensorComment /\ last'.err = ErrNil )
            => \A c \in comments :
                   ( /\ c.token = last'.cmdPayload.token
                     /\ c.commentID = last'.cmdPayload.commentID )
                   => \E d \in comments' :
                          /\ d.token = c.token /\ d.commentID = c.commentID
                          /\ d.censored
        /\ \A c \in comments :
               c.censored => \E d \in comments' :
                                 /\ d.token = c.token
                                 /\ d.commentID = c.commentID
                                 /\ d.censored
        /\ ( /\ last'.cmd = CmdGetComment /\ last'.cmdPayload.ok
             /\ \E c \in comments :
                    /\ c.token = last'.cmdPayload.token
                    /\ c.commentID = last'.cmdPayload.commentID
                    /\ c.censored )
            => /\ last'.err = ErrNil
               /\ last'.reply.comment =
                      CommentCensored(last'.cmdPayload.token,
                                      last'.cmdPayload.commentID)
      ]_vars

\* getcomment returned a censored comment of a record with another
\* comment that is not censored, while the comment with the same ID of
\* the other record is not censored either.
CensoredCommentReturned ==
    /\ last.cmd = CmdGetComment /\ last.err = ErrNil
    /\ last.reply.comment.censored
    /\ \E c \in comments :
           /\ c.token = last.cmdPayload.token
           /\ c.commentID # last.cmdPayload.commentID
           /\ ~c.censored
    /\ \E c \in comments :
           /\ c.token # last.cmdPayload.token
           /\ c.commentID = last.cmdPayload.commentID
           /\ ~c.censored


(***************************************************************************)
(* votesummary on the cockroachdb cache, over records that the cache has   *)
(* stored: authorizevote, startvote and loadvoteresults of the record a    *)
(* and ballots on a and b in every order, ballots after the results were   *)
(* stored included.                                                        *)
(***************************************************************************)
MaxSummaryCastVotes == 2

Record(token, version) ==
    [token |-> token, version |-> version, status |-> RecordStatusPublic]

\* The records table: the record a in one or two versions, and the
\* record b.
StoredRecords ==
    {{Record(TokenA, 1), Record(TokenB, 1)},
     {Record(TokenA, 1), Record(TokenA, 2), Record(TokenB, 1)}}

InitSummary ==
    /\ records \in StoredRecords
    /\ comments = {} /\ likes = <<>> /\ authorizeVotes = {}
    /\ startVotes = {} /\ castVotes = <<>> /\ voteResults = {}
    /\ tables = SeqToSet(PluginTables) \cup {tableVersions}
    /\ versions = {VersionRow(foneroVersion, 0)}
    /\ tcRecords = EmptyMap /\ tcAuthorizeVotes = EmptyMap
    /\ tcStartVotes = EmptyMap /\ tcStartVoteReplies = EmptyMap
    /\ tcComments = EmptyMap
    /\ tpStartVotes = EmptyMap /\ tpStartVoteReplies = EmptyMap
    /\ mutex = Unlocked /\ running = NoCalls
    /\ last = NoCall

\* An authorization of either version of a and a revocation of the
\* first.
SummaryAuthorizeVoteCalls ==
    {Call(AuthorizeVoteCmd(TokenA, s), AuthorizeVoteReply(s, v),
          Env(0, <<>>)) :
        s \in {x \in AuthorizeVoteSigned : x.timestamp = 1},
        v \in AuthorizeVoteVersions}
    \cup {Call(AuthorizeVoteCmd(TokenA, s), AuthorizeVoteReply(s, <<"1">>),
               Env(0, <<>>)) :
             s \in {x \in AuthorizeVoteSigned : x.timestamp = 2}}

\* A vote on a that ends at block 0 or at block 1.
SummaryStartVoteCalls == StartVoteOk({TokenA}, {0, 1}, LoadConfigs)

SummaryBallots ==
    {<<CastVote(TokenA, TicketT, VoteBitYes)>>,
     <<CastVote(TokenA, TicketU, VoteBitNo)>>,
     <<CastVote(TokenB, TicketT, VoteBitYes)>>}

\* votesummary of the record a and of a token that has no record.
TokenNone == <<"c">>

SummaryCalls ==
    ReadCalls(TokenCmd)
        \cup {Call(Payload([token |-> TokenNone]), EmptyPayload, Env(0, <<>>))}

NextSummary ==
    \/ DoExec(CmdAuthorizeVote, SummaryAuthorizeVoteCalls)
    \/ DoStartVote(SummaryStartVoteCalls)
    \/ DoBallot(BallotOk(SummaryBallots), MaxSummaryCastVotes)
    \/ DoLoadVoteResults(LoadVoteResultsOk({1}, {<<TokenA>>}))
    \/ DoExec(CmdVoteSummary, SummaryCalls)

SpecSummary == InitSummary /\ [][NextSummary]_vars

\* The rows that a votesummary of a token reads.
SummaryRecordVersions(token) == {r.version : r \in {x \in records : x.token = token}}
SummaryAuthorizeVotes(token) ==
    {av \in authorizeVotes :
        /\ av.token = token
        /\ av.version \in SummaryRecordVersions(token)
        /\ \A v \in SummaryRecordVersions(token) : v <= av.version}
SummaryStartVotes(token) == {sv \in startVotes : sv.token = token}
SummaryVoteResults(token) == {vr \in voteResults : vr.token = token}

\* The number of cast votes stored for a token and the bits of an option.
SummaryCastVotes(token, bits) ==
    Cardinality({i \in 1..Len(castVotes) :
                    /\ castVotes[i].token = token
                    /\ castVotes[i].voteBit = FormatUint(bits, 16)})

SummaryEndHeightOfStartVote ==
    [][ ( /\ last'.cmd = CmdVoteSummary /\ last'.cmdPayload.ok
          /\ SummaryRecordVersions(last'.cmdPayload.token) # {} )
        => /\ last'.err = ErrNil
           /\ \A sv \in SummaryStartVotes(last'.cmdPayload.token) :
                  last'.reply.endHeight = FormatUint(sv.endHeight, 10)
           /\ SummaryStartVotes(last'.cmdPayload.token) = {}
                  => last'.reply.endHeight = <<>>
      ]_vars

\* C20, amended: votesummary returns the end height of the StartVote of
\* the token when the latest version of the record has an AuthorizeVote
\* and the end height is not 0; it returns an empty end height when that
\* version has no AuthorizeVote, when the token has no StartVote and when
\* the end height is 0.
SummaryEndHeight ==
    [][ ( /\ last'.cmd = CmdVoteSummary /\ last'.cmdPayload.ok
          /\ SummaryRecordVersions(last'.cmdPayload.token) # {} )
        => /\ last'.err = ErrNil
           /\ \A sv \in SummaryStartVotes(last'.cmdPayload.token) :
                  last'.reply.endHeight =
                      IF /\ SummaryAuthorizeVotes(last'.cmdPayload.token) # {}
                         /\ sv.endHeight # 0
                      THEN FormatUint(sv.endHeight, 10)
                      ELSE <<>>
           /\ SummaryStartVotes(last'.cmdPayload.token) = {}
                  => last'.reply.endHeight = <<>>
      ]_vars

\* votesummary returned an empty end height for a token whose StartVote
\* ends at block 1: the record has a second version and the AuthorizeVote
\* is of the first.
SummaryOfOlderAuthorizeVote ==
    /\ last.cmd = CmdVoteSummary /\ last.err = ErrNil
    /\ last.reply.endHeight = <<>>
    /\ \E sv \in SummaryStartVotes(last.cmdPayload.token) : sv.endHeight = 1
    /\ \E av \in authorizeVotes : av.token = last.cmdPayload.token
    /\ SummaryAuthorizeVotes(last.cmdPayload.token) = {}


(***************************************************************************)
(* The commands that read collections, for the record a, which has a       *)
(* comment, a like, a vote and a cast vote, and for the record b and the   *)
(* comment 2, which have none.                                             *)
(***************************************************************************)
CollectionCommands ==
    {CmdGetComments, CmdCommentLikes, CmdProposalCommentsLikes,
     CmdProposalVotes}

CollectionKeys ==
    {Payload([token |-> t, commentID |-> id]) :
         t \in CommentTokens, id \in CommentIDs}

CollectionCalls ==
    {Call(k, EmptyPayload, Env(0, <<>>)) : k \in CollectionKeys}
        \cup {Call(Malformed, EmptyPayload, Env(0, <<>>))}

NextCollections ==
    \/ DoExec(CmdNewComment, NewCommentCalls)
    \/ DoLikeComment(LikeCommentCalls)
    \/ DoStartVote(StartVoteOk({TokenA}, {1}, LoadConfigs))
    \/ DoBallot(BallotOk(ExecBallots), MaxExecCastVotes)
    \/ \E cmd \in CollectionCommands : DoExec(cmd, CollectionCalls)
    \/ \E c \in CollectionCalls : TcExecStep(CmdGetComments, c.cp, c.rp)

SpecCollections == Init /\ [][NextCollections]_vars

\* No row matches the payload of a command reading collections.
CollectionNoRows(cmd, payload) ==
    CASE cmd = CmdGetComments ->
             \A c \in comments : c.token # payload.token
      [] cmd = CmdCommentLikes ->
             \A i \in 1..Len(likes) :
                 \/ likes[i].token # payload.token
                 \/ likes[i].commentID # payload.commentID
      [] cmd = CmdProposalCommentsLikes ->
             \A i \in 1..Len(likes) : likes[i].token # payload.token
      [] cmd = CmdProposalVotes ->
             /\ \A sv \in startVotes : sv.token # payload.token
             /\ \A i \in 1..Len(castVotes) :
                    castVotes[i].token # payload.token

\* The collection, or collections, of the reply of such a command are
\* empty: a set of the database cache, a slice of the testcache.
CollectionsEmpty(impl, cmd, reply) ==
    CASE cmd = CmdGetComments ->
             IF impl = "testcache" THEN reply.comments = <<>>
             ELSE reply.comments = {}
      [] cmd = CmdCommentLikes -> reply.commentLikes = <<>>
      [] cmd = CmdProposalCommentsLikes -> reply.commentsLikes = <<>>
      [] cmd = CmdProposalVotes ->
             /\ reply.castVotes = <<>>
             /\ reply.startVote.options = <<>>

\* C22: getcomments, commentlikes, proposalcommentslikes and proposalvotes
\* with a payload that decodes and names a token, or a comment, that no
\* row matches return no error and a reply whose collections are empty;
\* so does getcomments of the testcache, which holds no comments.
NoRowsEmptyReply ==
    [][ ( /\ last'.cmd \in CollectionCommands /\ last'.cmdPayload.ok
          /\ \/ last'.impl = "testcache" /\ last'.cmd = CmdGetComments
             \/ /\ last'.impl = "cockroachdb"
                /\ CollectionNoRows(last'.cmd, last'.cmdPayload) )
        => /\ last'.err = ErrNil
           /\ last'.reply.ok
           /\ CollectionsEmpty(last'.impl, last'.cmd, last'.reply)
      ]_vars

\* proposalvotes of the record b returned an empty reply while the record
\* a has a comment, a like, a vote and a cast vote.
NoRowsOfOtherRecord ==
    /\ last.impl = "cockroachdb" /\ last.cmd = CmdProposalVotes
    /\ last.err = ErrNil /\ last.cmdPayload.token = TokenB
    /\ comments # {} /\ likes # <<>> /\ startVotes # {} /\ castVotes # <<>>


(***************************************************************************)
(* The records of the testcache: NewRecord, Record, RecordVersion and      *)
(* UpdateRecordStatus on the records a (versions 1, 2 and 10) and b, with  *)
(* authorizevote and votedetails of the plugin.                            *)
(***************************************************************************)
RecordVersions == {<<"1">>, <<"2">>, <<"1", "0">>}

CacheRecord(token, version, files) ==
    [token |-> token, version |-> version, status |-> RecordStatusPublic,
     timestamp |-> 1, metadata |-> "m1", files |-> files]

\* What politeiad adds: each version of a, with one of two sets of files
\* for the first, and the first version of b.
NewRecords ==
    {CacheRecord(TokenA, v, "f1") : v \in RecordVersions}
        \cup {CacheRecord(TokenA, <<"1">>, "f2"),
              CacheRecord(TokenB, <<"1">>, "f1")}

RecordAuthorizeVoteCalls ==
    {Call(AuthorizeVoteCmd(TokenA, s), AuthorizeVoteReply(s, <<"2">>),
          Env(0, <<>>)) : s \in {x \in AuthorizeVoteSigned : x.timestamp = 1}}

NextRecords ==
    \/ \E r \in NewRecords : TcNewRecordStep(r)
    \/ \E t \in {TokenA, TokenB} : TcRecordStep(t)
    \/ \E t \in {TokenA, TokenB}, v \in RecordVersions :
           TcRecordVersionStep(t, v)
    \/ \E t \in {TokenA, TokenB}, v \in {<<"1">>, <<"2">>} :
           TcUpdateRecordStatusStep(t, v, RecordStatusArchived, 2, "m2")
    \/ \E c \in RecordAuthorizeVoteCalls :
           TcExecStep(CmdAuthorizeVote, c.cp, c.rp)
    \/ TcExecStep(CmdVoteDetails, TokenCmd, EmptyPayload)

SpecRecords == Init /\ [][NextRecords]_vars

\* The versions stored for a token in the testcache.
StoredVersions(token) ==
    IF token \in DOMAIN tcRecords THEN DOMAIN tcRecords[token] ELSE {}

\* C23: NewRecord of a token and version that are already stored does not
\* overwrite the stored record of that version.
NewRecordKeepsStored ==
    [][ last'.cmd = "NewRecord"
        => \A t \in DOMAIN tcRecords : \A v \in DOMAIN tcRecords[t] :
               /\ t \in DOMAIN tcRecords' /\ v \in DOMAIN tcRecords'[t]
               /\ tcRecords'[t][v] = tcRecords[t][v]
      ]_vars


\* C24: Record returns the stored record of the token whose version is the
\* highest as a number, and ErrRecordNotFound exactly when no record of
\* the token is stored; RecordVersion returns the record stored for the
\* token and version, and ErrRecordNotFound exactly when there is none.
RecordIsLatest ==
    [][ /\ last'.cmd = "Record"
            => IF StoredVersions(last'.cmdPayload.token) = {}
               THEN last'.err = ErrRecordNotFound
               ELSE /\ last'.err = ErrNil
                    /\ \E v \in StoredVersions(last'.cmdPayload.token) :
                           /\ last'.reply = tcRecords[last'.cmdPayload.token][v]
                           /\ last'.reply.version = v
                           /\ \A w \in StoredVersions(last'.cmdPayload.token) :
                                  ParseUint(w) <= ParseUint(v)
        /\ last'.cmd = "RecordVersion"
            => IF last'.cmdPayload.version
                      \in StoredVersions(last'.cmdPayload.token)
               THEN /\ last'.err = ErrNil
                    /\ last'.reply = tcRecords[last'.cmdPayload.token]
                                              [last'.cmdPayload.version]
               ELSE last'.err = ErrRecordNotFound
      ]_vars

\* Record returned version 10 of a record whose version 2 is stored too.
RecordOfVersionTen ==
    /\ last.cmd = "Record" /\ last.err = ErrNil
    /\ last.reply.version = <<"1", "0">>
    /\ <<"2">> \in StoredVersions(last.cmdPayload.token)

\* C25: UpdateRecordStatus of a token and version that are stored sets the
\* status, the timestamp and the metadata of that record and changes
\* nothing else: not its other fields, not another version or record, not
\* the data of the plugin.  When the version is not stored it returns
\* ErrRecordNotFound and changes nothing.
UpdateRecordStatusFrame ==
    [][ last'.cmd = "UpdateRecordStatus"
        => /\ UNCHANGED <<dbVars, tpVars, tcAuthorizeVotes, tcStartVotes,
                          tcStartVoteReplies, tcComments>>
           /\ IF last'.cmdPayload.version
                     \in StoredVersions(last'.cmdPayload.token)
              THEN /\ last'.err = ErrNil
                   /\ DOMAIN tcRecords' = DOMAIN tcRecords
                   /\ \A t \in DOMAIN tcRecords :
                          /\ DOMAIN tcRecords'[t] = DOMAIN tcRecords[t]
                          /\ \A v \in DOMAIN tcRecords[t] :
                                 tcRecords'[t][v] =
                                     IF /\ t = last'.cmdPayload.token
                                        /\ v = last'.cmdPayload.version
                                     THEN [tcRecords[t][v] EXCEPT
                                              !.status = last'.cmdPayload.status,
                                              !.timestamp =
                                                  last'.cmdPayload.timestamp,
                                              !.metadata =
                                                  last'.cmdPayload.metadata]
                                     ELSE tcRecords[t][v]
              ELSE /\ last'.err = ErrRecordNotFound
                   /\ tcRecords' = tcRecords
      ]_vars

\* UpdateRecordStatus changed the first version of a record that has a
\* second version and an authorized vote.
UpdateRecordStatusOfFirst ==
    /\ last.cmd = "UpdateRecordStatus" /\ last.err = ErrNil
    /\ last.cmdPayload.version = <<"1">>
    /\ <<"2">> \in StoredVersions(last.cmdPayload.token)
    /\ tcRecords[last.cmdPayload.token][<<"1">>].status = RecordStatusArchived
    /\ tcRecords[last.cmdPayload.token][<<"2">>].status = RecordStatusPublic
    /\ tcAuthorizeVotes # EmptyMap


\* C26: no Exec command removes the row of a comment or changes its
\* comment ID (or its token); a comment that is censored stays censored
\* with an empty text; and a censorcomment of a token and comment ID that
\* have no row creates no row.
CommentRowsKept ==
    [][ /\ \A c \in comments :
               \E d \in comments' :
                   /\ d.key = c.key
                   /\ d.token = c.token /\ d.commentID = c.commentID
                   /\ c.censored => (d.censored /\ d.comment = "")
        /\ \A c \in comments : c.censored => c.comment = ""
        /\ last'.cmd = CmdCensorComment
               => \A d \in comments' : \E c \in comments : c.key = d.key
      ]_vars

\* A second newcomment of a comment that is censored was refused, and the
\* comment is still censored, with votes and likes stored beside it.
NewCommentOverCensored ==
    /\ last.cmd = CmdNewComment /\ last.cmdPayload.ok /\ last.replyPayload.ok
    /\ last.err # ErrNil /\ last.env.fault = 0
    /\ \E c \in comments : c.censored /\ c.comment = ""
    /\ likes # <<>> /\ castVotes # <<>> /\ voteResults # {}


(***************************************************************************)
(* Likes of three comments of two records: likecomment, commentlikes and   *)
(* proposalcommentslikes, among the other commands of Exec.                *)
(***************************************************************************)
MaxLikeRows == 2

LikeKeys ==
    {Payload([token |-> TokenA, commentID |-> <<"1">>]),
     Payload([token |-> TokenA, commentID |-> <<"2">>]),
     Payload([token |-> TokenB, commentID |-> <<"1">>])}

\* A like and a dislike of each comment, carried out or failed by the
\* database, and a likecomment that does not decode.
LikeCalls ==
    UNION {WriteCalls(Payload([token |-> k.token, commentID |-> k.commentID,
                               action |-> a]),
                      Payload([total |-> 1, result |-> 1, receipt |-> "r2"])) :
               k \in LikeKeys, a \in {"1", "-1"}}

DoLike(calls) ==
    \E c \in calls :
        /\ Len(likes) < MaxLikeRows
        /\ ExecStep(CmdLikeComment, c.cp, c.rp, c.env)

NextLikes ==
    \/ DoLike(LikeCalls)
    \/ DoExec(CmdCommentLikes, UNION {ReadCalls(k) : k \in LikeKeys})
    \/ DoExec(CmdProposalCommentsLikes, ReadCalls(TokenCmd))
    \/ DoExec(CmdNewComment, NewCommentCalls)
    \/ DoExec(CmdCensorComment, CensorCommentCalls)
    \/ DoExec(CmdGetComment, ReadCalls(CommentCmd))
    \/ DoExec(CmdGetComments, ReadCalls(TokenCmd))
    \/ DoExec(CmdAuthorizeVote, RecordAuthorizeVoteCalls)
    \/ DoStartVote(StartVoteOk({TokenA}, {1}, LoadConfigs))
    \/ DoLoadVoteResults(LoadVoteResultsOk({1}, {<<TokenA>>}))
    \/ \E cmd \in {CmdVoteDetails, CmdProposalVotes, CmdVoteSummary,
                    CmdInventory, CmdBestBlock, "unknown"} :
           DoExec(cmd, ReadCalls(TokenCmd))
    \/ DoTokenInventory(TokenInventoryCalls({1}))

SpecLikes == Init /\ [][NextLikes]_vars

\* The likes stored for a comment, in the order they were stored.
LikesOf(token, commentID) ==
    SelectSeq(likes, LAMBDA l : l.token = token /\ l.commentID = commentID)

\* C27: the like rows are only appended to: a likecomment that succeeds
\* adds one row, the like of its payload, behind the rows stored; no
\* other command and no failed likecomment changes the rows; and
\* commentlikes returns every row stored for its token and comment ID.
LikesAppendOnly ==
    [][ /\ ( /\ last'.cmd = CmdLikeComment /\ last'.err = ErrNil )
            => likes' = Append(likes,
                               [token |-> last'.cmdPayload.token,
                                commentID |-> last'.cmdPayload.commentID,
                                action |-> last'.cmdPayload.action])
        /\ ( \/ last'.cmd # CmdLikeComment \/ last'.err # ErrNil )
            => likes' = likes
        /\ ( /\ last'.cmd = CmdCommentLikes /\ last'.cmdPayload.ok )
            => /\ last'.err = ErrNil
               /\ last'.reply.commentLikes =
                      LikesOf(last'.cmdPayload.token,
                              last'.cmdPayload.commentID)
      ]_vars

\* commentlikes returned the like and the dislike stored for one comment
\* of a record.
CommentLikedTwice ==
    /\ last.cmd = CmdCommentLikes /\ last.err = ErrNil
    /\ Len(last.reply.commentLikes) = 2
    /\ last.reply.commentLikes[1].action # last.reply.commentLikes[2].action


(***************************************************************************)
(* The counts of loadvoteresults: votes on the records a and b with cast   *)
(* votes for both options and a cast vote whose bit is no option's.        *)
(***************************************************************************)
MaxCountVotes == 3

VoteBitOther == <<"4">>

\* A quorum of both tickets and a quorum that one vote meets.
CountConfigs ==
    {VoteConfig(100, 60, <<TicketT, TicketU>>),
     VoteConfig(20, 60, <<TicketT, TicketU>>)}

CountBallots ==
    {<<CastVote(TokenA, TicketT, VoteBitYes)>>,
     <<CastVote(TokenA, TicketU, VoteBitNo)>>,
     <<CastVote(TokenA, TicketU, VoteBitOther)>>,
     <<CastVote(TokenB, TicketT, VoteBitYes)>>}

NextCounts ==
    \/ DoStartVote(StartVoteOk({TokenA}, {1}, CountConfigs))
    \/ DoStartVote(StartVoteOk({TokenB}, {1}, {VoteConfig(20, 60, <<TicketT>>)}))
    \/ DoBallot(BallotOk(CountBallots), MaxCountVotes)
    \/ DoLoadVoteResults(LoadVoteResultsOk({1}, TokenOrders))

SpecCounts == Init /\ [][NextCounts]_vars

\* The option results of a StartVote with, for each option, the number of
\* cast votes of the token whose vote bit is the bits of the option.
CountedResults(sv) ==
    [i \in 1..Len(sv.options) |->
        [key |-> sv.token \o FormatUint(sv.options[i].bits, 16),
         votes |-> Cardinality(VotesFor(sv.token,
                                        FormatUint(sv.options[i].bits, 16))),
         option |-> sv.options[i]]]

\* C29: in every VoteResults row that a command creates, the count of each
\* option is the number of cast votes of the token whose vote bit is the
\* bits of the option, and the total that decides the approved flag is
\* the sum of these counts: a cast vote whose bit is no option's is in no
\* count and not in the total.
ResultsCountByBit ==
    [][ \A vr \in voteResults' \ voteResults :
            \E sv \in startVotes :
                /\ sv.token = vr.token
                /\ vr.results = CountedResults(sv)
                /\ vr.approved = tallyApproved(sv, CountedResults(sv))
      ]_vars

\* The results of the vote on a were stored with one vote for yes while
\* the record has a second cast vote, whose bit is no option's: with the
\* quorum of two votes the vote is not approved.
ResultsWithoutOtherBit ==
    \E vr \in voteResults :
        /\ vr.token = TokenA /\ ~vr.approved
        /\ vr.results[1].votes = 1 /\ vr.results[2].votes = 0
        /\ \E sv \in startVotes :
               sv.token = TokenA /\ sv.quorumPercentage = 100
        /\ Cardinality(VotesFor(TokenA, VoteBitOther)) = 1
        /\ Cardinality(VotesOf(TokenA)) = 2
        /\ Cardinality(VotesOf(TokenB)) = 1


\* C30: votesummary stops at the first row it does not find.  For a token
\* without record it fails with ErrRecordNotFound.  When the latest
\* version of the record has no AuthorizeVote the reply is not authorized
\* and has an empty end height, zero thresholds and no results, whatever
\* the StartVote, the VoteResults and the cast votes of the token are.
\* When it has one and the token has no StartVote, the reply has the
\* authorization of that AuthorizeVote, an empty end height and no results.
SummaryShortCircuits ==
    [][ ( /\ last'.cmd = CmdVoteSummary /\ last'.cmdPayload.ok )
        => IF SummaryRecordVersions(last'.cmdPayload.token) = {}
           THEN last'.err = ErrRecordNotFound
           ELSE /\ last'.err = ErrNil
                /\ SummaryAuthorizeVotes(last'.cmdPayload.token) = {}
                       => /\ ~last'.reply.authorized
                          /\ last'.reply.endHeight = <<>>
                          /\ last'.reply.eligibleTicketCount = 0
                          /\ last'.reply.quorumPercentage = 0
                          /\ last'.reply.passPercentage = 0
                          /\ last'.reply.results = <<>>
                /\ ( /\ SummaryAuthorizeVotes(last'.cmdPayload.token) # {}
                     /\ SummaryStartVotes(last'.cmdPayload.token) = {} )
                       => /\ last'.reply.authorized
                                = \E av \in SummaryAuthorizeVotes(
                                                last'.cmdPayload.token) :
                                      av.action = AuthVoteActionAuthorize
                          /\ last'.reply.endHeight = <<>>
                          /\ last'.reply.results = <<>>
      ]_vars

\* votesummary answered without authorization, end height and results for
\* a record whose first version is authorized and whose second is not,
\* while the StartVote, the VoteResults and a cast vote of the token are
\* stored.
SummaryStoppedAtAuthorizeVote ==
    /\ last.cmd = CmdVoteSummary /\ last.err = ErrNil
    /\ ~last.reply.authorized /\ last.reply.results = <<>>
    /\ last.reply.quorumPercentage = 0
    /\ SummaryAuthorizeVotes(last.cmdPayload.token) = {}
    /\ \E av \in authorizeVotes :
           /\ av.token = last.cmdPayload.token
           /\ av.action = AuthVoteActionAuthorize
    /\ SummaryStartVotes(last.cmdPayload.token) # {}
    /\ SummaryVoteResults(last.cmdPayload.token) # {}
    /\ VotesOf(last.cmdPayload.token) # {}


(***************************************************************************)
(* The testcache and TestPoliteiad under concurrent calls.  A call         *)
(* decodes its payloads, takes the mutex of its object, makes its accesses *)
(* to the maps one at a time, and releases the mutex when it returns       *)
(* (defer).  Between two accesses of one call the other goroutines run.    *)
(***************************************************************************)

\* The testcache whose startVote takes the mutex for reading.
\* CallsAreAtomic fails for a cache built on it.
tcLockingStartVoteShared(cmd) ==
    CASE cmd \in {CmdGetComments, CmdStartVote, "Record", "RecordVersion"}
             -> "RLock"
      [] OTHER -> "Lock"

\* What each operation of the testcache takes before its first access:
\* c.Lock() or c.RLock().
tcLocking(cmd) ==
    CASE cmd \in {CmdGetComments, "Record", "RecordVersion"} -> "RLock"
      [] cmd \in {CmdAuthorizeVote, CmdStartVote, CmdVoteDetails,
                  "NewRecord", "UpdateRecordStatus"} -> "Lock"

\* TestPoliteiad.startVote: p.Lock().
tpLocking(cmd) == "Lock"

Locking(impl, cmd) ==
    IF impl = "testcache" THEN tcLocking(cmd) ELSE tpLocking(cmd)

\* The accesses an operation makes to the maps, in the order of its
\* statements.
tcAccesses(cmd) ==
    CASE cmd = CmdGetComments -> <<"comments.get">>
      [] cmd = CmdAuthorizeVote ->
             <<"authorizeVotes.make", "authorizeVotes.put">>
      [] cmd = CmdStartVote -> <<"startVotes.put", "startVoteReplies.put">>
      [] cmd = CmdVoteDetails ->
             <<"record", "authorizeVotes.make", "authorizeVotes.get",
               "startVotes.get", "startVoteReplies.get">>
      [] cmd = "NewRecord" -> <<"records.make", "records.put">>
      [] cmd = "Record" -> <<"record">>
      [] cmd = "RecordVersion" -> <<"recordVersion">>
      [] cmd = "UpdateRecordStatus" -> <<"recordVersion", "records.update">>

tpAccesses(cmd) == <<"startVotes.put", "startVoteReplies.put">>

Accesses(impl, cmd) ==
    IF impl = "testcache" THEN tcAccesses(cmd) ELSE tpAccesses(cmd)

\* The accesses that write a map.
Writes(access) ==
    access \in {"authorizeVotes.make", "authorizeVotes.put", "startVotes.put",
                "startVoteReplies.put", "records.make", "records.put",
                "records.update"}

\* The locals of a call that has taken the mutex: the record and the map
\* entries it has read so far, and the maps as they were when it took the
\* mutex (entered, which the code does not keep).
Locals(entered) ==
    [entered |-> entered, r |-> ZeroRecord, comments |-> <<>>,
     av |-> ZeroPluginAuthorizeVote, sv |-> ZeroPluginStartVote,
     svr |-> ZeroPluginStartVoteReply]

\* One access to the maps: what it leaves of them and of the locals, and
\* the error it returns with.
Accessed(c, local, err) == [c |-> c, local |-> local, err |-> err]

tcAccess(c, call, access) ==
    CASE access = "comments.get" ->
             Accessed(c, [call.local EXCEPT !.comments =
                              MapGet(c.comments, call.cp.token, <<>>)],
                      ErrNil)
      [] access = "authorizeVotes.make" ->
             Accessed([c EXCEPT !.authorizeVotes =
                          MapPut(@, call.cp.token,
                                 MapGet(@, call.cp.token, EmptyMap))],
                      call.local, ErrNil)
      [] access = "authorizeVotes.put" ->
             Accessed([c EXCEPT !.authorizeVotes =
                          MapPut(@, call.cp.token,
                                 MapPut(MapGet(@, call.cp.token, EmptyMap),
                                        call.rp.recordVersion,
                                        [action |-> call.cp.action,
                                         token |-> call.cp.token,
                                         receipt |-> call.rp.receipt,
                                         timestamp |-> call.rp.timestamp]))],
                      call.local, ErrNil)
      [] access = "startVotes.put" ->
             Accessed([c EXCEPT !.startVotes =
                          MapPut(@, call.cp.token, call.cp)],
                      call.local, ErrNil)
      [] access = "startVoteReplies.put" ->
             Accessed([c EXCEPT !.startVoteReplies =
                          MapPut(@, call.cp.token, call.rp)],
                      call.local, ErrNil)
      [] access = "record" ->
             Accessed(c, [call.local EXCEPT
                              !.r = tcRecord(c, call.cp.token)[1]],
                      tcRecord(c, call.cp.token)[2])
      [] access = "authorizeVotes.get" ->
             Accessed(c, [call.local EXCEPT !.av =
                              MapGet(MapGet(c.authorizeVotes, call.cp.token,
                                            EmptyMap),
                                     call.local.r.version,
                                     ZeroPluginAuthorizeVote)],
                      ErrNil)
      [] access = "startVotes.get" ->
             Accessed(c, [call.local EXCEPT !.sv =
                              MapGet(c.startVotes, call.cp.token,
                                     ZeroPluginStartVote)],
                      ErrNil)
      [] access = "startVoteReplies.get" ->
             Accessed(c, [call.local EXCEPT !.svr =
                              MapGet(c.startVoteReplies, call.cp.token,
                                     ZeroPluginStartVoteReply)],
                      ErrNil)
      [] access = "records.make" ->
             Accessed([c EXCEPT !.records =
                          MapPut(@, call.cp.token,
                                 MapGet(@, call.cp.token, EmptyMap))],
                      call.local, ErrNil)
      [] access = "records.put" ->
             Accessed([c EXCEPT !.records =
                          MapPut(@, call.cp.token,
                                 MapPut(MapGet(@, call.cp.token, EmptyMap),
                                        call.cp.version, call.cp))],
                      call.local, ErrNil)
      [] access = "recordVersion" ->
             Accessed(c, [call.local EXCEPT !.r =
                              tcRecordVersion(c, call.cp.token,
                                              call.cp.version)[1]],
                      tcRecordVersion(c, call.cp.token, call.cp.version)[2])
      [] access = "records.update" ->
             Accessed([c EXCEPT !.records =
                          MapPut(@, call.cp.token,
                                 MapPut(MapGet(@, call.cp.token, EmptyMap),
                                        call.cp.version,
                                        [call.local.r EXCEPT
                                            !.status = call.cp.status,
                                            !.timestamp = call.cp.timestamp,
                                            !.metadata = call.cp.metadata]))],
                      call.local, ErrNil)

\* TestPoliteiad.startVote: the vote, then the reply it computed.
tpAccess(p, call, access) ==
    CASE access = "startVotes.put" ->
             Accessed([p EXCEPT !.startVotes =
                          MapPut(@, call.cp.token, call.cp)],
                      call.local, ErrNil)
      [] access = "startVoteReplies.put" ->
             Accessed([p EXCEPT !.startVoteReplies =
                          MapPut(@, call.cp.token,
                                 [ok |-> TRUE,
                                  endHeight |->
                                      FormatUint(bestBlock + call.cp.duration,
                                                 10),
                                  eligibleTickets |-> <<>>])],
                      call.local, ErrNil)

\* What a call returns when an access failed, and when none did.
tcFailed(cmd) ==
    IF cmd \in {"Record", "RecordVersion"} THEN ZeroRecord ELSE EmptyPayload

tcReply(cmd, rp, local) ==
    CASE cmd = CmdGetComments -> [ok |-> TRUE, comments |-> local.comments]
      [] cmd \in {CmdAuthorizeVote, CmdStartVote} -> rp
      [] cmd = CmdVoteDetails ->
             [ok |-> TRUE, authorizeVote |-> local.av, startVote |-> local.sv,
              startVoteReply |-> local.svr]
      [] cmd \in {"Record", "RecordVersion"} -> local.r
      [] OTHER -> EmptyPayload

tpReply(cmd, cp) ==
    [ok |-> TRUE, endHeight |-> FormatUint(bestBlock + cp.duration, 10),
     eligibleTickets |-> <<>>]

\* A payload of the call does not decode: it returns before it takes the
\* mutex.
DecodeFails(impl, cmd, cp, rp) ==
    \/ cmd \in {CmdGetComments, CmdAuthorizeVote, CmdStartVote,
                CmdVoteDetails} /\ ~cp.ok
    \/ impl = "testcache" /\ cmd \in {CmdAuthorizeVote, CmdStartVote}
           /\ ~rp.ok

Obj(impl) == IF impl = "testcache" THEN TC ELSE TP

Acquired(m, mode, g) ==
    CASE mode = "Lock" -> Lock(m, g)
      [] mode = "RLock" -> RLock(m, g)
      [] OTHER -> m

Released(m, mode, g) ==
    CASE mode = "Lock" -> Unlock(m, g)
      [] mode = "RLock" -> RUnlock(m, g)
      [] OTHER -> m

Holds(m, g) == m.writer = g \/ g \in m.readers

\* The goroutine g calls cmd on the testcache or on TestPoliteiad: it
\* returns at once when a payload does not decode, and otherwise goes on
\* when it has the mutex.
GoCall(g, impl, cmd, cp, rp) ==
    /\ running[g] = Idle
    /\ IF DecodeFails(impl, cmd, cp, rp)
       THEN /\ last' = [impl |-> impl, cmd |-> cmd, cmdPayload |-> cp,
                        replyPayload |-> rp, env |-> Env(0, <<>>),
                        err |-> ErrDecode, reply |-> EmptyPayload]
            /\ UNCHANGED <<dbVars, tcVars, tpVars, ccVars>>
       ELSE /\ Locking(impl, cmd) = "Lock" => CanLock(mutex[impl])
            /\ Locking(impl, cmd) = "RLock" => CanRLock(mutex[impl])
            /\ mutex' = [mutex EXCEPT
                            ![impl] = Acquired(@, Locking(impl, cmd), g)]
            /\ running' = [running EXCEPT ![g] =
                              [impl |-> impl, cmd |-> cmd, pc |-> 1,
                               cp |-> cp, rp |-> rp, env |-> Env(0, <<>>),
                               local |-> Locals(Obj(impl))]]
            /\ UNCHANGED <<dbVars, tcVars, tpVars, last>>

\* The call of g returns: the deferred Unlock or RUnlock runs.
GoReturn(g, call, reply, err) ==
    /\ running' = [running EXCEPT ![g] = Idle]
    /\ mutex' = [mutex EXCEPT ![call.impl] =
                    Released(@, Locking(call.impl, call.cmd), g)]
    /\ last' = [impl |-> call.impl, cmd |-> call.cmd, cmdPayload |-> call.cp,
                replyPayload |-> call.rp, env |-> call.env, err |-> err,
                reply |-> reply]

\* The call of g has made the access a: it returns when a failed or was
\* its last, and goes on to its next access otherwise.
GoOn(g, call, a, reply) ==
    IF a.err # ErrNil
    THEN GoReturn(g, call, tcFailed(call.cmd), a.err)
    ELSE IF call.pc = Len(Accesses(call.impl, call.cmd))
    THEN GoReturn(g, call, reply, ErrNil)
    ELSE /\ running' = [running EXCEPT ![g].pc = @ + 1, ![g].local = a.local]
         /\ UNCHANGED <<mutex, last>>

TcAccessed(g, call, a) ==
    /\ SetTC(a.c)
    /\ GoOn(g, call, a, tcReply(call.cmd, call.rp, a.local))
    /\ UNCHANGED <<dbVars, tpVars>>

\* The next access of the call of g on the testcache.
TcAccessStep(g) ==
    /\ running[g].impl = "testcache"
    /\ TcAccessed(g, running[g],
                  tcAccess(TC, running[g],
                           tcAccesses(running[g].cmd)[running[g].pc]))

TpAccessed(g, call, a) ==
    /\ tpStartVotes' = a.c.startVotes
    /\ tpStartVoteReplies' = a.c.startVoteReplies
    /\ GoOn(g, call, a, tpReply(call.cmd, call.cp))
    /\ UNCHANGED <<dbVars, tcVars>>

\* The next access of the call of g on TestPoliteiad.
TpAccessStep(g) ==
    /\ running[g].impl = "testpoliteiad"
    /\ TpAccessed(g, running[g],
                  tpAccess(TP, running[g],
                           tpAccesses(running[g].cmd)[running[g].pc]))


\* What the call returns and leaves of the maps when nothing runs between
\* its accesses: the handler as one step.
tcAtomic(c, cmd, cp, rp) ==
    CASE cmd = "NewRecord" -> Result(tcNewRecord(c, cp), EmptyPayload, ErrNil)
      [] cmd = "Record" ->
             Result(c, tcRecord(c, cp.token)[1], tcRecord(c, cp.token)[2])
      [] cmd = "RecordVersion" ->
             Result(c, tcRecordVersion(c, cp.token, cp.version)[1],
                    tcRecordVersion(c, cp.token, cp.version)[2])
      [] cmd = "UpdateRecordStatus" ->
             tcUpdateRecordStatus(c, cp.token, cp.version, cp.status,
                                  cp.timestamp, cp.metadata)
      [] OTHER -> foneroExec(c, cmd, cp, rp)

Atomic(impl, obj, cmd, cp, rp) ==
    IF impl = "testcache" THEN tcAtomic(obj, cmd, cp, rp)
    ELSE tpFoneroExec(obj, cmd, cp)

(***************************************************************************)
(* Concurrent calls on the record a of the testcache: votes of one and of  *)
(* two blocks, an authorization and a revocation, the reads of the plugin, *)
(* the four record operations; and startvote on TestPoliteiad.             *)
(***************************************************************************)
LockStartVoteCalls ==
    StartVoteOk({TokenA}, {1, 2}, LoadConfigs)
        \cup {Call(Malformed, EmptyPayload, Env(0, <<>>))}

LockAuthorizeVoteCalls ==
    {Call(AuthorizeVoteCmd(TokenA, s), AuthorizeVoteReply(s, <<"1">>),
          Env(0, <<>>)) : s \in {x \in AuthorizeVoteSigned : x.timestamp <= 2}}

LockRecordCalls ==
    {<<"NewRecord", CacheRecord(TokenA, <<"1">>, "f1")>>,
     <<"Record", [token |-> TokenA]>>,
     <<"RecordVersion", [token |-> TokenA, version |-> <<"1">>]>>,
     <<"UpdateRecordStatus",
       [token |-> TokenA, version |-> <<"1">>,
        status |-> RecordStatusArchived, timestamp |-> 2,
        metadata |-> "m2"]>>}

NextLocks ==
    \/ \E g \in Goroutines, c \in LockStartVoteCalls :
           GoCall(g, "testcache", CmdStartVote, c.cp, c.rp)
    \/ \E g \in Goroutines, c \in LockAuthorizeVoteCalls :
           GoCall(g, "testcache", CmdAuthorizeVote, c.cp, c.rp)
    \/ \E g \in Goroutines, cmd \in {CmdVoteDetails, CmdGetComments} :
           GoCall(g, "testcache", cmd, TokenCmd, EmptyPayload)
    \/ \E g \in Goroutines, c \in LockRecordCalls :
           GoCall(g, "testcache", c[1], c[2], EmptyPayload)
    \/ \E g \in Goroutines, c \in StartVoteOk({TokenA}, {1}, LoadConfigs) :
           GoCall(g, "testpoliteiad", CmdStartVote, c.cp, EmptyPayload)
    \/ \E g \in Goroutines : TcAccessStep(g)
    \/ \E g \in Goroutines : TpAccessStep(g)

SpecLocks == Init /\ [][NextLocks]_vars

\* Every call that has not returned holds the mutex of its object, and
\* holds it alone when one of its accesses writes.
LockHeld ==
    \A g \in Goroutines :
        running[g] # Idle
            => /\ Holds(mutex[running[g].impl], g)
               /\ ( \E i \in DOMAIN Accesses(running[g].impl, running[g].cmd) :
                        Writes(Accesses(running[g].impl, running[g].cmd)[i]) )
                      => /\ mutex[running[g].impl].writer = g
                         /\ mutex[running[g].impl].readers = {}
                         /\ \A h \in Goroutines \ {g} :
                                running[h].impl # running[g].impl

\* The call that g was executing returned in this step.
GoReturned(g) == running[g] # Idle /\ running'[g] = Idle

\* C28: in the testcache (and in TestPoliteiad) a call touches the maps
\* only while it holds the mutex of the object, and alone when it writes;
\* so every call returns, and leaves in the maps, what its handler gives
\* as one step on the maps as they were when it took the mutex: no call
\* sees or overwrites a part of what another is writing.
CallsAreAtomic ==
    [][ /\ LockHeld'
        /\ \A g \in Goroutines :
               GoReturned(g)
                   => /\ last'.err =
                             Atomic(running[g].impl, running[g].local.entered,
                                    running[g].cmd, running[g].cp,
                                    running[g].rp).err
                      /\ last'.reply =
                             Atomic(running[g].impl, running[g].local.entered,
                                    running[g].cmd, running[g].cp,
                                    running[g].rp).reply
                      /\ (IF running[g].impl = "testcache" THEN TC' ELSE TP') =
                             Atomic(running[g].impl, running[g].local.entered,
                                    running[g].cmd, running[g].cp,
                                    running[g].rp).db
      ]_vars

\* A startvote of two blocks has written its vote over that of one block
\* and not yet its reply, while another goroutine is writing in
\* TestPoliteiad: the maps of the testcache are half updated under the
\* mutex.
HalfUpdatedUnderLock ==
    \E g \in Goroutines, h \in Goroutines :
        /\ running[g].impl = "testcache" /\ running[g].cmd = CmdStartVote
        /\ running[g].pc = 2
        /\ TokenA \in DOMAIN tcStartVoteReplies
        /\ tcStartVotes[TokenA].duration = 2
        /\ tcStartVoteReplies[TokenA].endHeight = FormatUint(1, 10)
        /\ running[h].impl = "testpoliteiad" /\ running[h].pc = 2


(***************************************************************************)
(* Concurrent Exec calls on the cockroachdb cache.  Each statement a       *)
(* handler issues is a step; the other goroutines run between two of       *)
(* them.  The database is taken to be what CockroachDB documents:          *)
(* statements on a transaction handle see the committed rows and the       *)
(* transaction's own writes, their writes become visible to the others at  *)
(* Commit and all at once, a statement that meets a row another open       *)
(* transaction has written waits for it, and a statement on the database   *)
(* handle itself sees committed rows only and writes at once.              *)
(***************************************************************************)

\* A handle of the database itself: what it writes, it writes at once.
\* ReplacedRowIsSeen fails for a cache whose cmdAuthorizeVote uses it.
BeginNoTransaction == [tx |-> FALSE, deleted |-> {}, created |-> {}]

\* tx := d.recordsdb.Begin(): the keys it deleted and the rows it created
\* are held until Commit.
Begin == [tx |-> TRUE, deleted |-> {}, created |-> {}]

\* The rows a statement on the handle h sees of a table.
Seen(h, table) == {r \in table : r.key \notin h.deleted} \cup h.created

\* The handle h has written the key and not committed.
Intent(h, key) == key \in h.deleted \/ \E r \in h.created : r.key = key

\* Another goroutine's open transaction has written the key.
Waits(g, key) ==
    \E o \in Goroutines \ {g} :
        /\ running[o].impl = "cockroachdb"
        /\ running[o].cmd = CmdAuthorizeVote
        /\ Intent(running[o].local.tx, key)

\* tx.Where("key = ?", key).Delete(AuthorizeVote{}): <<handle, table>>
avDelete(h, table, key) ==
    IF h.tx
    THEN <<[h EXCEPT !.deleted = IF \E r \in table : r.key = key
                                 THEN @ \cup {key} ELSE @,
                     !.created = {r \in @ : r.key # key}],
           table>>
    ELSE <<h, {r \in table : r.key # key}>>

\* tx.Create(&av): <<handle, table, error>>
avCreate(h, table, row, failed) ==
    IF Create(Seen(h, table), row, failed)[2] # ErrNil
    THEN <<h, table, Create(Seen(h, table), row, failed)[2]>>
    ELSE IF h.tx THEN <<[h EXCEPT !.created = @ \cup {row}], table, ErrNil>>
    ELSE <<h, table \cup {row}, ErrNil>>

\* tx.Commit(): the table with the writes of the handle.
avCommit(h, table) == Seen(h, table)

\* The call of g on the cockroachdb cache returns.
DbReturn(g, call, fault, reply, err) ==
    /\ running' = [running EXCEPT ![g] = Idle]
    /\ last' = [impl |-> "cockroachdb", cmd |-> call.cmd,
                cmdPayload |-> call.cp, replyPayload |-> call.rp,
                env |-> Env(fault, <<>>), err |-> err, reply |-> reply]

\* The payloads of an authorizevote decode and its record version is a
\* number.
AuthorizeVoteParses(cp, rp) ==
    cp.ok /\ rp.ok /\ ParseUint(rp.recordVersion) >= 0

\* cmdAuthorizeVote up to Begin: it returns at once when a payload does
\* not decode, and has a transaction otherwise.
GoAuthorizeVote(g, cp, rp) ==
    /\ running[g] = Idle
    /\ IF ~AuthorizeVoteParses(cp, rp)
       THEN /\ last' = Returned("cockroachdb", CmdAuthorizeVote, cp, rp,
                                Env(0, <<>>),
                                cmdAuthorizeVote(DB, cp, rp, Env(0, <<>>)))
            /\ UNCHANGED running
       ELSE /\ running' = [running EXCEPT ![g] =
                              [impl |-> "cockroachdb",
                               cmd |-> CmdAuthorizeVote, pc |-> 1,
                               cp |-> cp, rp |-> rp, env |-> Env(0, <<>>),
                               local |->
                                   [tx |-> Begin,
                                    a |-> convertAuthorizeVoteFromFonero(
                                              cp, rp,
                                              ParseUint(rp.recordVersion))]]]
            /\ UNCHANGED last
    /\ UNCHANGED <<dbVars, tcVars, tpVars, mutex>>

\* newAuthorizeVote's delete.  When it fails the transaction is rolled
\* back.
AvDeleted(g, call, failed, d) ==
    IF failed
    THEN /\ DbReturn(g, call, 1, EmptyPayload, ErrStorage)
         /\ UNCHANGED authorizeVotes
    ELSE /\ authorizeVotes' = d[2]
         /\ running' = [running EXCEPT ![g].pc = 2, ![g].local.tx = d[1]]
         /\ UNCHANGED last

\* newAuthorizeVote's create.  When it fails the transaction is rolled
\* back: what a handle of the database itself has written stays.
AvCreated(g, call, c) ==
    /\ authorizeVotes' = c[2]
    /\ IF c[3] # ErrNil
       THEN DbReturn(g, call, 2, EmptyPayload, c[3])
       ELSE /\ running' = [running EXCEPT ![g].pc = 3, ![g].local.tx = c[1]]
            /\ UNCHANGED last

\* tx.Commit()
AvCommitted(g, call, failed) ==
    IF failed
    THEN /\ DbReturn(g, call, 3, EmptyPayload, ErrStorage)
         /\ UNCHANGED authorizeVotes
    ELSE /\ DbReturn(g, call, 0, call.rp, ErrNil)
         /\ authorizeVotes' = avCommit(call.local.tx, authorizeVotes)

\* The next statement of the authorizevote of g; the database may fail it
\* (failed).
AuthorizeVoteStatement(g, failed) ==
    /\ running[g].impl = "cockroachdb" /\ running[g].cmd = CmdAuthorizeVote
    /\ running[g].pc < 3 => ~Waits(g, running[g].local.a.key)
    /\ CASE running[g].pc = 1 ->
                AvDeleted(g, running[g], failed,
                          avDelete(running[g].local.tx, authorizeVotes,
                                   running[g].local.a.key))
         [] running[g].pc = 2 ->
                AvCreated(g, running[g],
                          avCreate(running[g].local.tx, authorizeVotes,
                                   running[g].local.a, failed))
         [] running[g].pc = 3 -> AvCommitted(g, running[g], failed)
    /\ UNCHANGED <<records, comments, likes, startVotes, castVotes,
                   voteResults, tables, versions, tcVars, tpVars, mutex>>

\* What votedetails and votesummary return on the database db.
Read(db, cmd, cp) ==
    IF cmd = CmdVoteDetails THEN cmdVoteDetails(db, cp)
    ELSE cmdVoteSummary(db, cp)

\* The key under which votedetails and votesummary look up the
\* AuthorizeVote: the token and the latest version of its record.
AuthorizeVoteKey(db, token) ==
    token \o FormatUint(First(latestRecord(db, token)).version, 10)

\* The rows of the key.
RowsOfKey(table, key) == {r \in table : r.key = key}

\* votedetails and votesummary up to the lookup of the record: the call
\* returns when the payload does not decode or the token has no record.
\* had is whether the key has a row when the call is made, and is not
\* kept by the code.
GoRead(g, cmd, cp) ==
    /\ running[g] = Idle
    /\ IF ~cp.ok \/ ~Found(latestRecord(DB, cp.token))
       THEN /\ last' = Returned("cockroachdb", cmd, cp, EmptyPayload,
                                Env(0, <<>>), Read(DB, cmd, cp))
            /\ UNCHANGED running
       ELSE /\ running' = [running EXCEPT ![g] =
                              [impl |-> "cockroachdb", cmd |-> cmd, pc |-> 1,
                               cp |-> cp, rp |-> EmptyPayload,
                               env |-> Env(0, <<>>),
                               local |->
                                   [had |-> RowsOfKey(authorizeVotes,
                                                 AuthorizeVoteKey(
                                                     DB, cp.token)) # {},
                                    replacing |-> FALSE, av |-> {}]]]
            /\ UNCHANGED last
    /\ UNCHANGED <<dbVars, tcVars, tpVars, mutex>>

\* The lookup of the AuthorizeVote, on the handle of the database: the
\* rows of the key that are committed.  replacing is whether a
\* transaction that deleted the row is open, and is not kept by the code.
AvLookup(g, call) ==
    /\ call.pc = 1
    /\ running' = [running EXCEPT
                      ![g].pc = 2,
                      ![g].local.av =
                          RowsOfKey(authorizeVotes,
                               AuthorizeVoteKey(DB, call.cp.token)),
                      ![g].local.replacing =
                          Waits(g, AuthorizeVoteKey(DB, call.cp.token))]
    /\ UNCHANGED last

\* The lookups that follow, and the reply: that of the handler on the
\* AuthorizeVote it has read.
ReadReturn(g, call) ==
    /\ call.pc = 2
    /\ DbReturn(g, call, 0,
                Read([DB EXCEPT !.authorizeVotes = call.local.av], call.cmd,
                     call.cp).reply,
                Read([DB EXCEPT !.authorizeVotes = call.local.av], call.cmd,
                     call.cp).err)

\* The next statement of the votedetails or votesummary of g.
ReadStatement(g) ==
    /\ running[g].impl = "cockroachdb"
    /\ running[g].cmd \in {CmdVoteDetails, CmdVoteSummary}
    /\ AvLookup(g, running[g]) \/ ReadReturn(g, running[g])
    /\ UNCHANGED <<dbVars, tcVars, tpVars, mutex>>

(***************************************************************************)
(* Authorizations and revocations of the first version of the record a,    *)
(* on both caches, while votedetails and votesummary of a run.             *)
(***************************************************************************)
\* A process has one cache: the cockroachdb cache on a database that
\* holds the record, or the testcache that holds it and no database.
InitReplace ==
    /\ \/ /\ records = {Record(TokenA, 1)}
          /\ tables = SeqToSet(PluginTables) \cup {tableVersions}
          /\ versions = {VersionRow(foneroVersion, 0)}
          /\ tcRecords = EmptyMap
       \/ /\ records = {} /\ tables = {} /\ versions = {}
          /\ tcRecords = MapPut(EmptyMap, TokenA,
                                MapPut(EmptyMap, <<"1">>,
                                       CacheRecord(TokenA, <<"1">>, "f1")))
    /\ comments = {} /\ likes = <<>> /\ authorizeVotes = {}
    /\ startVotes = {} /\ castVotes = <<>> /\ voteResults = {}
    /\ tcAuthorizeVotes = EmptyMap
    /\ tcStartVotes = EmptyMap /\ tcStartVoteReplies = EmptyMap
    /\ tcComments = EmptyMap
    /\ tpStartVotes = EmptyMap /\ tpStartVoteReplies = EmptyMap
    /\ mutex = Unlocked /\ running = NoCalls
    /\ last = NoCall

ReplaceCalls ==
    LockAuthorizeVoteCalls
        \cup {Call(Malformed, EmptyPayload, Env(0, <<>>))}

\* The cache of the process is the cockroachdb cache.
OnDatabase == tables # {}

NextReplace ==
    \/ \E g \in Goroutines, c \in ReplaceCalls :
           OnDatabase /\ GoAuthorizeVote(g, c.cp, c.rp)
    \/ \E g \in Goroutines, failed \in BOOLEAN :
           AuthorizeVoteStatement(g, failed)
    \/ \E g \in Goroutines, cmd \in {CmdVoteDetails, CmdVoteSummary},
          c \in ReadCalls(TokenCmd) :
           OnDatabase /\ GoRead(g, cmd, c.cp)
    \/ \E g \in Goroutines : ReadStatement(g)
    \/ \E g \in Goroutines, c \in ReplaceCalls :
           ~OnDatabase /\ GoCall(g, "testcache", CmdAuthorizeVote, c.cp, c.rp)
    \/ \E g \in Goroutines :
           /\ ~OnDatabase
           /\ GoCall(g, "testcache", CmdVoteDetails, TokenCmd, EmptyPayload)
    \/ \E g \in Goroutines : TcAccessStep(g)

SpecReplace == InitReplace /\ [][NextReplace]_vars

\* The lookup of the AuthorizeVote by the votedetails or votesummary of g
\* on the cockroachdb cache is made in this step.
AvLooksUp(g) ==
    /\ running[g].impl = "cockroachdb"
    /\ running[g].cmd \in {CmdVoteDetails, CmdVoteSummary}
    /\ running[g].pc = 1 /\ running'[g].pc = 2

\* The read of the AuthorizeVote by the votedetails of g on the testcache
\* is made in this step.
TcAvLooksUp(g) ==
    /\ running[g].impl = "testcache" /\ running[g].cmd = CmdVoteDetails
    /\ running[g].pc = 3 /\ running'[g].pc = 4

\* C21: a votedetails or votesummary that is called when the AuthorizeVote
\* of the latest version of its record has a row reads exactly one row
\* of that key, whatever authorizevote calls replace the row while it
\* runs; votedetails of the cockroachdb cache then returns an
\* AuthorizeVote of the token, and votedetails of the testcache reads an
\* AuthorizeVote that is not the zero value.
ReplacedRowIsSeen ==
    [][ \A g \in Goroutines :
            /\ ( AvLooksUp(g) /\ running[g].local.had )
                   => Cardinality(running'[g].local.av) = 1
            /\ ( /\ GoReturned(g) /\ running[g].impl = "cockroachdb"
                 /\ running[g].cmd = CmdVoteDetails /\ running[g].local.had )
                   => /\ last'.err = ErrNil
                      /\ last'.reply.authorizeVote.token = running[g].cp.token
            /\ ( /\ TcAvLooksUp(g)
                 /\ running[g].local.r.version
                        \in DOMAIN MapGet(running[g].local.entered.authorizeVotes,
                                          running[g].cp.token, EmptyMap) )
                   => running'[g].local.av # ZeroPluginAuthorizeVote
      ]_vars

\* A votedetails or votesummary has read the one row of its key while a
\* transaction that has deleted that row was open.
ReadWhileReplacing ==
    \E g \in Goroutines :
        /\ running[g].impl = "cockroachdb"
        /\ running[g].cmd \in {CmdVoteDetails, CmdVoteSummary}
        /\ running[g].pc = 2
        /\ running[g].local.had /\ running[g].local.replacing
        /\ Cardinality(running[g].local.av) = 1


(***************************************************************************)
(* loadvoteresults that fails part way, and the call that catches up.      *)
(***************************************************************************)
\* The tokens whose vote has ended at the block.
EndedTokens(block) ==
    {sv.token : sv \in {r \in startVotes : r.endHeight <= block}}

\* The tokens that have a VoteResults row.
ResultTokens(rows) == {vr.token : vr \in rows}

\* The tokens that come before the n-th in the order the query returned
\* them.
MaterializedBefore(tokens, n) == {tokens[i] : i \in 1..(n - 1)}

\* C31: a loadvoteresults that fails keeps every VoteResults row there was
\* and the row of every token it materialized before the one the
\* database failed, each an ended token that had none; one that succeeds creates a row for exactly the ended
\* tokens that had none, so that every token ended at its best block then
\* has exactly one row.
LoadVoteResultsCatchesUp ==
    [][ ( /\ last'.impl = "cockroachdb" /\ last'.cmd = CmdLoadVoteResults
          /\ last'.cmdPayload.ok )
        => /\ voteResults \subseteq voteResults'
           /\ ResultTokens(voteResults' \ voteResults)
                  \subseteq EndedTokens(last'.cmdPayload.bestBlock)
                                \ ResultTokens(voteResults)
           /\ \A t \in ResultTokens(voteResults') :
                  Cardinality({vr \in voteResults' : vr.token = t}) = 1
           /\ last'.err # ErrNil
                  => ResultTokens(voteResults' \ voteResults)
                         = MaterializedBefore(
                               Rows(EndedTokens(last'.cmdPayload.bestBlock)
                                        \ ResultTokens(voteResults),
                                    last'.env),
                               last'.env.fault)
           /\ last'.err = ErrNil
                  => EndedTokens(last'.cmdPayload.bestBlock)
                         \subseteq ResultTokens(voteResults')
      ]_vars

\* loadvoteresults failed on the second of two ended votes: the first has
\* its row, the second has none.
LoadVoteResultsFailedPartWay ==
    /\ last.impl = "cockroachdb" /\ last.cmd = CmdLoadVoteResults
    /\ last.cmdPayload.ok /\ last.err # ErrNil
    /\ Cardinality(EndedTokens(last.cmdPayload.bestBlock)) = 2
    /\ Cardinality(voteResults) = 1


(***************************************************************************)
(* Concurrent loadvoteresults.  The query, the lookups of newVoteResults   *)
(* and its Create are statements on d.recordsdb, each a step; Create       *)
(* inserts the VoteResults row with its option results or nothing.         *)
(***************************************************************************)

\* cmdLoadVoteResults up to its query: it returns at once when the payload
\* does not decode or the query has no rows.
GoLoadVoteResults(g, cp, order) ==
    /\ running[g] = Idle
    /\ IF ~cp.ok
          \/ Rows(loadVoteResultsQuery(DB, cp.bestBlock), Env(0, order)) = <<>>
       THEN /\ last' = Returned("cockroachdb", CmdLoadVoteResults, cp,
                                EmptyPayload, Env(0, order),
                                cmdLoadVoteResults(DB, cp, Env(0, order)))
            /\ UNCHANGED running
       ELSE /\ running' = [running EXCEPT ![g] =
                              [impl |-> "cockroachdb",
                               cmd |-> CmdLoadVoteResults, pc |-> 1,
                               cp |-> cp, rp |-> EmptyPayload,
                               env |-> Env(0, order),
                               local |->
                                   [tokens |->
                                        Rows(loadVoteResultsQuery(
                                                 DB, cp.bestBlock),
                                             Env(0, order)),
                                    i |-> 1, row |-> <<>>]]]
            /\ UNCHANGED last
    /\ UNCHANGED <<dbVars, tcVars, tpVars, mutex>>

\* newVoteResults up to its Create: the lookups of the StartVote and of
\* the cast votes, and the tally.
VoteResultsTallied(g, call, token, failed) ==
    /\ IF failed \/ ~\E r \in startVotes : r.token = token
       THEN DbReturn(g, call, call.local.i, EmptyPayload,
                     IF failed THEN ErrStorage ELSE ErrRecordNotFound)
       ELSE /\ running' = [running EXCEPT
                              ![g].pc = 2,
                              ![g].local.row =
                                  tallyVoteResults(
                                      token,
                                      CHOOSE r \in startVotes :
                                          r.token = token,
                                      SelectSeq(castVotes,
                                                LAMBDA v : v.token = token))]
            /\ UNCHANGED last
    /\ UNCHANGED voteResults

\* d.recordsdb.Create(&VoteResults{...}); the loop goes on to the next
\* token, and the call returns after the last.
VoteResultsCreated(g, call, c) ==
    /\ voteResults' = c[1]
    /\ IF c[2] # ErrNil THEN DbReturn(g, call, call.local.i, EmptyPayload, c[2])
       ELSE IF call.local.i = Len(call.local.tokens)
       THEN DbReturn(g, call, 0, [ok |-> TRUE], ErrNil)
       ELSE /\ running' = [running EXCEPT ![g].pc = 1, ![g].local.i = @ + 1,
                                          ![g].local.row = <<>>]
            /\ UNCHANGED last

\* The next statement of the loadvoteresults of g; the database may fail
\* it (failed).
LoadVoteResultsStatement(g, failed) ==
    /\ running[g].impl = "cockroachdb"
    /\ running[g].cmd = CmdLoadVoteResults
    /\ CASE running[g].pc = 1 ->
                VoteResultsTallied(g, running[g],
                                   running[g].local.tokens[running[g].local.i],
                                   failed)
         [] running[g].pc = 2 ->
                VoteResultsCreated(g, running[g],
                                   Create(voteResults, running[g].local.row,
                                          failed))
    /\ UNCHANGED <<records, comments, likes, authorizeVotes, startVotes,
                   castVotes, tables, versions, tcVars, tpVars, mutex>>

\* Votes of one block on a and b, a cast vote on a, and loadvoteresults
\* at block 1 by two goroutines, the rows of its query in either order.
\* The two goroutines that run loadvoteresults.
Loaders == {1, 2}

\* One vote cast on TokenA before its vote ends.
MaterializeBallotCalls == BallotOk({<<CastVote(TokenA, TicketT, VoteBitYes)>>})

NextMaterialize ==
    \/ DoStartVote(ServedStartVoteCalls)
    \/ DoFirstBallot(MaterializeBallotCalls)
    \/ \E g \in Loaders, o \in TokenOrders :
           GoLoadVoteResults(g, BestBlockCmd(1), o)
    \/ \E g \in Loaders, failed \in BOOLEAN :
           LoadVoteResultsStatement(g, failed)

SpecMaterialize == Init /\ [][NextMaterialize]_vars

\* C32: whatever the interleaving of the statements of concurrent
\* loadvoteresults calls, a token has at most one VoteResults row, and
\* the row has one option result for each option of the vote, each under
\* its own key.
OneVoteResultsPerToken ==
    /\ \A vr \in voteResults :
           /\ \A other \in voteResults : other.token = vr.token => other = vr
           /\ \A sv \in startVotes :
                  sv.token = vr.token => Len(vr.results) = Len(sv.options)
           /\ \A i \in DOMAIN vr.results, j \in DOMAIN vr.results :
                  vr.results[i].key = vr.results[j].key => i = j

\* Two loadvoteresults calls had tallied the same token, one before and
\* one after a vote was cast; the second to create its row was refused
\* and the row of the first is the one stored.
VoteResultsCreatedOnce ==
    /\ last.impl = "cockroachdb" /\ last.cmd = CmdLoadVoteResults
    /\ last.err = ErrDuplicateKey
    /\ \E vr \in voteResults :
           /\ vr.results[1].votes = 0
           /\ \E i \in DOMAIN castVotes :
                  /\ castVotes[i].token = vr.token
                  /\ castVotes[i].voteBit = VoteBitYes


(***************************************************************************)
(* What a Build leaves in the plugin tables.                               *)
(***************************************************************************)

\* The rows that the entities of the inventory ir convert to.
ReplayedComments(ir) ==
    {convertCommentFromFonero(ir.comments[i]) : i \in DOMAIN ir.comments}
ReplayedLikes(ir) ==
    [i \in DOMAIN ir.likeComments |->
        convertLikeCommentFromFonero(ir.likeComments[i])]
ReplayedCastVotes(ir) ==
    [i \in DOMAIN ir.castVotes |-> convertCastVoteFromFonero(ir.castVotes[i])]
ReplayedStartVotes(ir) ==
    {convertStartVoteFromFonero(
         ir.startVoteTuples[i].startVote, ir.startVoteTuples[i].startVoteReply,
         ParseUint(ir.startVoteTuples[i].startVoteReply.endHeight)) :
     i \in DOMAIN ir.startVoteTuples}
ReplayedAuthorizeVote(ir, i, replies) ==
    convertAuthorizeVoteFromFonero(
        ir.authorizeVotes[i], replies[Len(replies)],
        ParseUint(replies[Len(replies)].recordVersion))
ReplayedAuthorizeVotes(ir) ==
    {ReplayedAuthorizeVote(
         ir, i, RepliesFor(ir.authorizeVoteReplies,
                           ir.authorizeVotes[i].receipt)) :
     i \in DOMAIN ir.authorizeVotes}

\* The commands that a cache served before it is rebuilt: a comment on b, a
\* like of it, an authorization and a vote of one block on b, a cast vote
\* and the loadvoteresults that materialized the vote.
EarlierCalls ==
    <<<<CmdNewComment, CommentNew(TokenB, <<"1">>),
        CommentNewReply(TokenB, <<"1">>)>>,
      <<CmdLikeComment,
        Payload([token |-> TokenB, commentID |-> <<"1">>, action |-> "1"]),
        Payload([total |-> 1, result |-> 1, receipt |-> "r2"])>>,
      <<CmdAuthorizeVote,
        AuthorizeVoteCmd(TokenB, [action |-> AuthVoteActionAuthorize,
                                  receipt |-> "r1", timestamp |-> 1]),
        AuthorizeVoteReply([action |-> AuthVoteActionAuthorize,
                            receipt |-> "r1", timestamp |-> 1], <<"1">>)>>,
      <<CmdStartVote,
        StartVoteCmd(TokenB, 1, VoteConfig(20, 60, <<TicketT, TicketU>>)),
        StartVoteReply(FormatUint(1, 10),
                       VoteConfig(20, 60, <<TicketT, TicketU>>))>>,
      <<CmdBallot, BallotCmd(<<CastVote(TokenB, TicketT, VoteBitYes)>>),
        BallotReply>>,
      <<CmdLoadVoteResults, BestBlockCmd(1), EmptyPayload>>>>

RECURSIVE ExecAll(_, _, _)
\* The database after Exec of the calls from the i-th on, none failing.
ExecAll(db, calls, i) ==
    IF i > Len(calls) THEN db
    ELSE ExecAll(Exec(db, calls[i][1], calls[i][2], calls[i][3],
                      Env(0, <<TokenB>>)).db,
                 calls, i + 1)

\* A cache that was set up on a new database and served EarlierCalls.
EarlierDB ==
    ExecAll(Setup([EmptyDB EXCEPT !.tables = {tableVersions}],
                  Env(0, <<>>), 0)[1],
            EarlierCalls, 1)

InitRebuild ==
    /\ records = EarlierDB.records /\ comments = EarlierDB.comments
    /\ likes = EarlierDB.likes
    /\ authorizeVotes = EarlierDB.authorizeVotes
    /\ startVotes = EarlierDB.startVotes /\ castVotes = EarlierDB.castVotes
    /\ voteResults = EarlierDB.voteResults
    /\ tables = EarlierDB.tables /\ versions = EarlierDB.versions
    /\ tcRecords = EmptyMap /\ tcAuthorizeVotes = EmptyMap
    /\ tcStartVotes = EmptyMap /\ tcStartVoteReplies = EmptyMap
    /\ tcComments = EmptyMap
    /\ tpStartVotes = EmptyMap /\ tpStartVoteReplies = EmptyMap
    /\ mutex = Unlocked /\ running = NoCalls
    /\ last = NoCall

SpecRebuild == InitRebuild /\ [][NextLifecycle]_vars

\* C33: after a Build that succeeded, the comments, likes, StartVotes and
\* cast votes stored are those of the inventory and no others, every
\* AuthorizeVote stored is one of the inventory and every key of the
\* inventory's AuthorizeVotes is stored, and there is no VoteResults row,
\* whatever the tables held before.
BuildLeavesInventoryOnly ==
    [][ (last'.cmd = "Build" /\ last'.err = ErrNil)
        => /\ comments' = ReplayedComments(last'.cmdPayload)
           /\ likes' = ReplayedLikes(last'.cmdPayload)
           /\ castVotes' = ReplayedCastVotes(last'.cmdPayload)
           /\ startVotes' = ReplayedStartVotes(last'.cmdPayload)
           /\ authorizeVotes' \subseteq ReplayedAuthorizeVotes(last'.cmdPayload)
           /\ {a.key : a \in authorizeVotes'}
                  = {a.key : a \in ReplayedAuthorizeVotes(last'.cmdPayload)}
           /\ voteResults' = {}
      ]_vars

\* The cache that served EarlierCalls was rebuilt from the full inventory,
\* which is of a alone: the comment, like, AuthorizeVote, StartVote and
\* cast vote of b are gone and those of a are stored, the vote of b is no
\* longer materialized, and loadvoteresults, run again, materializes the
\* vote of a.
BuildDroppedEarlierRows ==
    /\ last.cmd = "Build" /\ last.err = ErrNil
    /\ last.cmdPayload = InventoryFull
    /\ \A c \in comments : c.token = TokenA
    /\ \A a \in authorizeVotes : a.token = TokenA
    /\ \A sv \in startVotes : sv.token = TokenA
    /\ \A i \in DOMAIN likes : likes[i].token = TokenA
    /\ \A i \in DOMAIN castVotes : castVotes[i].token = TokenA
    /\ comments # {} /\ authorizeVotes # {} /\ startVotes # {}
    /\ likes # <<>> /\ castVotes # <<>>
    /\ voteResults = {}
    /\ {vr.token :
           vr \in cmdLoadVoteResults(DB, BestBlockCmd(1),
                                    Env(0, <<TokenA, TokenB>>)).db.voteResults}
           = {TokenA}

(***************************************************************************)
(* Comments that are censored, stored by Exec and replayed by Build.       *)
(***************************************************************************)

\* The comment of an inventory: what politeiad keeps of the comment that
\* CommentNew made, its text removed when it was censored.
InventoryComment(token, id, censored) ==
    [token |-> token,
     parentID |-> CommentNew(token, id).parentID,
     comment |-> IF censored THEN "" ELSE CommentNew(token, id).comment,
     signature |-> CommentNew(token, id).signature,
     publicKey |-> CommentNew(token, id).publicKey,
     commentID |-> id,
     receipt |-> CommentNewReply(token, id).receipt,
     timestamp |-> CommentNewReply(token, id).timestamp,
     totalVotes |-> 0, resultVotes |-> 0, censored |-> censored]

\* Inventories of comments alone: none, one that is censored, and two of
\* which the second is censored.
CensorInventories ==
    {Inventory(cs, <<>>, <<>>, <<>>, <<>>, <<>>) :
        cs \in {<<>>,
                <<InventoryComment(TokenA, <<"1">>, TRUE)>>,
                <<InventoryComment(TokenA, <<"1">>, FALSE),
                  InventoryComment(TokenA, <<"2">>, TRUE)>>}}

\* The commands that made the comments of an inventory: newcomment of
\* each, and censorcomment of each that is censored.
CommentCalls(cs) ==
    [i \in 1..(2 * Len(cs)) |->
        IF i <= Len(cs)
        THEN <<CmdNewComment, CommentNew(cs[i].token, cs[i].commentID),
               CommentNewReply(cs[i].token, cs[i].commentID)>>
        ELSE IF cs[i - Len(cs)].censored
        THEN <<CmdCensorComment,
               Payload([token |-> cs[i - Len(cs)].token,
                        commentID |-> cs[i - Len(cs)].commentID]),
               Payload([receipt |-> "r3"])>>
        ELSE <<CmdBestBlock, EmptyPayload, EmptyPayload>>]

NextCensor ==
    \/ \E ir \in CensorInventories \cup {Malformed}, now \in Clock :
           BuildStep(ir, Env(0, <<>>), now, FALSE)
    \/ Served(CmdNewComment, CommentNewCalls)
    \/ Served(CmdCensorComment, CommentCensorCalls)
    \/ Served(CmdGetComment, CommentGetCalls)

SpecCensor == Init /\ [][NextCensor]_vars

\* C34: after a Build that succeeded the comments table is what Exec of
\* the commands that made the comments of the inventory leaves, and
\* getcomment of a comment that the inventory marks as censored returns
\* it with censored set.
BuildKeepsCensored ==
    [][ (last'.cmd = "Build" /\ last'.err = ErrNil)
        => /\ comments'
                  = ExecAll([DB EXCEPT !.comments = {}],
                            CommentCalls(last'.cmdPayload.comments), 1).comments
           /\ \A i \in DOMAIN last'.cmdPayload.comments :
                  last'.cmdPayload.comments[i].censored
                      => cmdGetComment(
                             DB', Payload([token |->
                                      last'.cmdPayload.comments[i].token,
                                  commentID |->
                                      last'.cmdPayload.comments[i].commentID])
                         ).reply.comment.censored
      ]_vars



\* C35: once a Build has failed in its replay (its payload decoded and it
\* did not panic), no call but a Build that succeeds brings the cache to
\* a state where CheckVersion succeeds: stated for the call that follows
\* the failed Build, be it Setup, CheckVersion, an Exec or a Build that
\* fails again.
FailedBuildForcesRebuild ==
    [][ ( /\ last.cmd = "Build" /\ last.cmdPayload.ok
          /\ last.err \notin {ErrNil, ErrPanic}
          /\ ~(last'.cmd = "Build" /\ last'.err = ErrNil) )
        => CheckVersion(DB') # ErrNil
      ]_vars



\* C36: when tokeninventory succeeds, every token that has a StartVote is
\* in exactly one of the lists Active, Approved and Rejected of the reply:
\* in Active when its end height is above the best block of the call and
\* in no other list then, and otherwise in Approved or in Rejected as the
\* approved flag of its VoteResults row says.
TokenInventoryPartitions ==
    [][ ( /\ last'.impl = "cockroachdb" /\ last'.cmd = CmdTokenInventory
          /\ last'.err = ErrNil )
        => \A sv \in startVotes' :
               IF sv.endHeight > last'.cmdPayload.bestBlock
               THEN /\ sv.token \in last'.reply.active
                    /\ sv.token \notin last'.reply.approved
                    /\ sv.token \notin last'.reply.rejected
               ELSE /\ sv.token \notin last'.reply.active
                    /\ \E vr \in voteResults' :
                           /\ vr.token = sv.token
                           /\ sv.token \in last'.reply.approved
                                  <=> vr.approved
                           /\ sv.token \in last'.reply.rejected
                                  <=> ~vr.approved
      ]_vars


(***************************************************************************)
(* The authorization that votesummary and votedetails report, on the      *)
(* cockroachdb cache, whose records table holds a in one or two versions,  *)
(* and on the testcache, to which NewRecord adds the versions of a.        *)
(***************************************************************************)
AuthorizedRecords ==
    {CacheRecord(TokenA, v, "f1") : v \in AuthorizeVoteVersions}

\* An authorization of either version of a and a revocation of either.
AuthorizedCalls ==
    {Call(AuthorizeVoteCmd(TokenA, s), AuthorizeVoteReply(s, v),
          Env(0, <<>>)) :
        s \in {x \in AuthorizeVoteSigned : x.timestamp \in {1, 2}},
        v \in AuthorizeVoteVersions}

\* votesummary and votedetails of TokenA.
AuthorizedReads == {Call(TokenCmd, EmptyPayload, Env(0, <<>>))}

NextAuthorized ==
    \/ DoExec(CmdAuthorizeVote, AuthorizedCalls)
    \/ DoExec(CmdVoteSummary, AuthorizedReads)
    \/ DoExec(CmdVoteDetails, AuthorizedReads)
    \/ \E r \in AuthorizedRecords : TcNewRecordStep(r)
    \/ \E c \in AuthorizedCalls : TcExecStep(CmdAuthorizeVote, c.cp, c.rp)
    \/ TcExecStep(CmdVoteDetails, TokenCmd, EmptyPayload)

SpecAuthorized == InitSummary /\ [][NextAuthorized]_vars

\* Whether the AuthorizeVote of the latest version of the record of a
\* token has the action authorize: in the tables, and in the maps of the
\* testcache.
LatestAuthorized(token) ==
    \E av \in authorizeVotes :
        /\ av.token = token
        /\ av.version \in SummaryRecordVersions(token)
        /\ \A v \in SummaryRecordVersions(token) : v <= av.version
        /\ av.action = AuthVoteActionAuthorize
TcLatestAuthorized(token) ==
    /\ token \in DOMAIN tcAuthorizeVotes
    /\ \E v \in StoredVersions(token) :
           /\ \A w \in StoredVersions(token) : Atoi(w) <= Atoi(v)
           /\ v \in DOMAIN tcAuthorizeVotes[token]
           /\ tcAuthorizeVotes[token][v].action = AuthVoteActionAuthorize

\* C37: the authorized flag of a votesummary reply, and the action
\* authorize in the AuthorizeVote of a votedetails reply of either cache,
\* say that the AuthorizeVote of the latest version of the record has the
\* action authorize: not after a revocation of that version, and not
\* when only an earlier version is authorized.
AuthorizedIsOfLatestVersion ==
    [][ /\ ( /\ last'.impl = "cockroachdb" /\ last'.cmd = CmdVoteSummary
             /\ last'.err = ErrNil )
            => (last'.reply.authorized <=> LatestAuthorized(TokenA)')
        /\ ( /\ last'.impl = "cockroachdb" /\ last'.cmd = CmdVoteDetails
             /\ last'.err = ErrNil )
            => ( last'.reply.authorizeVote.action = AuthVoteActionAuthorize
                     <=> LatestAuthorized(TokenA)' )
        /\ ( /\ last'.impl = "testcache" /\ last'.cmd = CmdVoteDetails
             /\ last'.err = ErrNil )
            => ( last'.reply.authorizeVote.action = AuthVoteActionAuthorize
                     <=> TcLatestAuthorized(TokenA)' )
      ]_vars

\* votesummary reported a as not authorized although the first version
\* of the record is authorized: the record has a second version, which is
\* not; and the testcache, given the second version after the first was
\* authorized, holds that authorization still.
AuthorizedVersionSuperseded ==
    /\ last.impl = "cockroachdb" /\ last.cmd = CmdVoteSummary
    /\ last.err = ErrNil /\ ~last.reply.authorized
    /\ \E av \in authorizeVotes :
           /\ av.token = TokenA /\ av.version = 1
           /\ av.action = AuthVoteActionAuthorize
    /\ Record(TokenA, 2) \in records
    /\ StoredVersions(TokenA) = AuthorizeVoteVersions
    /\ TokenA \in DOMAIN tcAuthorizeVotes
    /\ <<"1">> \in DOMAIN tcAuthorizeVotes[TokenA]
    /\ tcAuthorizeVotes[TokenA][<<"1">>].action = AuthVoteActionAuthorize
    /\ ~TcLatestAuthorized(TokenA)
    /\ tcVoteDetails(TC, TokenCmd).reply.authorizeVote.action
           # AuthVoteActionAuthorize



\* C38: a VoteResults row that a command creates for a token that has no
\* cast vote is not approved, whatever the quorum percentage, the pass
\* percentage and the eligible tickets of its StartVote.
NoVotesNotApproved ==
    [][ \A vr \in voteResults' \ voteResults :
            VotesOf(vr.token) = {} => ~vr.approved
      ]_vars



\* C39: for every token that a loadvoteresults materializes, the option
\* results of the votesummary reply are the same right before the call,
\* when they are counted from the cast votes, and right after it, when
\* they are read from the VoteResults row.
SummaryCountsKept ==
    [][ ( /\ last'.impl = "cockroachdb" /\ last'.cmd = CmdLoadVoteResults )
        => \A t \in {TokenA, TokenB} :
               (\E vr \in voteResults' \ voteResults : vr.token = t)
                   => cmdVoteSummary(DB, Payload([token |-> t])).reply
                          = cmdVoteSummary(DB', Payload([token |-> t])).reply
      ]_vars

\* loadvoteresults materialized the vote of a, which is authorized and has
\* a cast vote: votesummary reads the counts from the row, one vote for
\* the first option, and they are what a count of the cast votes gives.
SummaryReadsMaterializedCounts ==
    /\ last.impl = "cockroachdb" /\ last.cmd = CmdLoadVoteResults
    /\ last.err = ErrNil
    /\ \E vr \in voteResults : vr.token = TokenA
    /\ cmdVoteSummary(DB, TokenCmd).reply.authorized
    /\ Len(cmdVoteSummary(DB, TokenCmd).reply.results) = 2
    /\ cmdVoteSummary(DB, TokenCmd).reply.results[1].votes = 1
    /\ cmdVoteSummaryLive(DB, TokenCmd).reply
           = cmdVoteSummary(DB, TokenCmd).reply


(***************************************************************************)
(* The same cast votes in either order, one by one or in one batch.        *)
(***************************************************************************)
MaxOrderCastVotes == 2

\* A yes and a no on a, each alone and both in one batch in either order.
OrderBallots ==
    {<<CastVote(TokenA, TicketT, VoteBitYes)>>,
     <<CastVote(TokenA, TicketU, VoteBitNo)>>,
     <<CastVote(TokenA, TicketT, VoteBitYes),
       CastVote(TokenA, TicketU, VoteBitNo)>>,
     <<CastVote(TokenA, TicketU, VoteBitNo),
       CastVote(TokenA, TicketT, VoteBitYes)>>}

\* A pass threshold that one yes of two votes misses and one that it
\* meets.
OrderConfigs ==
    {VoteConfig(20, 100, <<TicketT, TicketU>>),
     VoteConfig(20, 0, <<TicketT, TicketU>>)}

OrderStartVoteCalls == StartVoteOk({TokenA}, {1}, OrderConfigs)

OrderBallotCalls == BallotOk(OrderBallots)

OrderLoadVoteResultsCalls == LoadVoteResultsOk({1}, {<<TokenA>>})

NextOrder ==
    \/ DoStartVote(OrderStartVoteCalls)
    \/ DoBallot(OrderBallotCalls, MaxOrderCastVotes)
    \/ DoLoadVoteResults(OrderLoadVoteResultsCalls)

SpecOrder == Init /\ [][NextOrder]_vars

\* The orders in which a table of n rows can be stored.
Orders(n) == {p \in [1..n -> 1..n] : \A i, j \in 1..n : p[i] = p[j] => i = j}

\* The cast votes of a token when the table is stored in the order p.
OrderedCastVotes(p, token) ==
    SelectSeq([i \in 1..Len(castVotes) |-> castVotes[p[i]]],
              LAMBDA v : v.token = token)

\* C40: the VoteResults row that a command creates, its approved flag and
\* its option results, is the one that the StartVote and the cast votes of
\* the token give in whatever order the cast votes are stored, and so
\* however the ballots that stored them were ordered and batched.
VoteResultsOrderFree ==
    [][ \A vr \in voteResults' \ voteResults :
            \A sv \in startVotes :
                sv.token = vr.token
                    => \A p \in Orders(Len(castVotes)) :
                           tallyVoteResults(vr.token, sv,
                                            OrderedCastVotes(p, vr.token))
                               = vr
      ]_vars

\* loadvoteresults materialized a vote whose no was stored before its
\* yes: one vote for each option, as with the yes stored first.
VoteResultsOfReversedVotes ==
    /\ last.cmd = CmdLoadVoteResults /\ last.err = ErrNil
    /\ Len(castVotes) = 2
    /\ castVotes[1].voteBit = VoteBitNo /\ castVotes[2].voteBit = VoteBitYes
    /\ \E vr \in voteResults :
           /\ vr.token = TokenA
           /\ vr.results[1].votes = 1 /\ vr.results[2].votes = 1
           /\ \A sv \in startVotes :
                  vr = tallyVoteResults(
                           TokenA, sv,
                           <<castVotes[2], castVotes[1]>>)

=============================================================================
